---------------------------- MODULE Spec2Model ----------------------------
(***************************************************************************)
(* Hungarian Tarokk rules engine (server/models, server/game_logic,        *)
(* server/validation, server/networking/server.py) as a state machine.     *)
(* One action per socket event handler; a handler's action covers every    *)
(* state change the handler makes, in the order the code makes them.       *)
(***************************************************************************)
EXTENDS Integers, Sequences, FiniteSets, TLC

(***************************************************************************)
(* Bounds of the model.                                                    *)
(***************************************************************************)
\* number of distinct shuffles the dealer may produce
NumShuffles == 2
\* longest bid log explored within one auction
MaxBids == 12
\* longest bid log given to is_auction_complete
MaxLogLen == 5
\* announce commands are sent while the ledger has fewer entries than this
MaxAnnouncements == 1
MaxLedger == 2
MaxTrickDeck == 9
MaxScoreLedger == 2
\* handlers that may wait at an await at the same time
MaxSuspended == 2
\* discards are sent while players_who_discarded is shorter than this
MaxDiscarded == 5

(***************************************************************************)
(* Cards (models/card.py, models/deck.py).  A card is its index in the     *)
(* order in which Deck._generate_deck creates the deck.                    *)
(***************************************************************************)
DeckSize == 42
NumTarokk == 22
TalonSize == 6
HandSize == 9
NumPlayers == 4
NoPos == -1
NumTricks == 9

Cards == 1..DeckSize
Seats == 0..(NumPlayers - 1)

is_tarokk(c) == c <= NumTarokk

SuitNames == <<"hearts", "diamonds", "spades", "clubs">>
SuitRanks == <<"K", "Q", "C", "J", "10">>
TarokkRanks == <<"skiz", "XXI", "I", "XX", "XIX", "XVIII", "XVII", "XVI", "XV",
                 "XIV", "XIII", "XII", "XI", "X", "IX", "VIII", "VII", "VI",
                 "V", "IV", "III", "II">>

Suit(c) == IF is_tarokk(c) THEN "tarokk"
           ELSE SuitNames[((c - NumTarokk - 1) \div 5) + 1]

Rank(c) == IF is_tarokk(c) THEN TarokkRanks[c]
           ELSE SuitRanks[((c - NumTarokk - 1) % 5) + 1]

is_honour(c) == is_tarokk(c) /\ Rank(c) \in {"skiz", "XXI", "I"}

is_king(c) == ~is_tarokk(c) /\ Rank(c) = "K"

Points(c) == IF is_tarokk(c) THEN (IF is_honour(c) THEN 5 ELSE 1)
             ELSE 5 - ((c - NumTarokk - 1) % 5)

can_be_discarded(c) == ~(is_king(c) \/ is_honour(c))

\* a variant of tarokk_value that ranks the pagat with the honours
tarokk_value_by_id(c) == IF c > NumTarokk THEN 0 ELSE NumTarokk + 2 - c

tarokk_value(c) ==
    IF ~is_tarokk(c) THEN 0
    ELSE IF Rank(c) = "skiz" THEN 22
    ELSE IF Rank(c) = "XXI" THEN 21
    ELSE IF Rank(c) = "I" THEN 1
    ELSE NumTarokk + 2 - c

suit_rank_value(c) == IF is_tarokk(c) THEN 0 ELSE 5 - ((c - NumTarokk - 1) % 5)

has_honour(h) == \E c \in h : is_honour(c)

RECURSIVE SumPoints(_)
SumPoints(S) == IF S = {} THEN 0
                ELSE LET c == CHOOSE x \in S : TRUE
                     IN Points(c) + SumPoints(S \ {c})

Range(s) == {s[i] : i \in 1..Len(s)}

(***************************************************************************)
(* Deck.create_and_shuffle: random.shuffle may leave the 42 cards in any   *)
(* order; the model draws the order from NumShuffles concrete ones.        *)
(***************************************************************************)
Strides == <<5, 11, 13, 17, 19, 23, 25>>
Shuffle(k) == [i \in 1..DeckSize |-> (((i - 1) * Strides[k] + 3 * k) % DeckSize) + 1]
Shuffles == {Shuffle(k) : k \in 1..NumShuffles}

(***************************************************************************)
(* Phases (models/game_state.py GamePhase).                                *)
(***************************************************************************)
PhaseOrder == <<"waiting", "dealing", "bidding", "talon_distribution",
                "discarding", "partner_call", "announcements", "playing",
                "scoring", "game_end">>

(***************************************************************************)
(* Bids (models/bid.py).                                                   *)
(***************************************************************************)
BidTypes == {"pass", "three", "two", "one", "solo", "hold"}

GameValue(bt) == CASE bt = "three" -> 1 [] bt = "two" -> 2 [] bt = "one" -> 3
                   [] bt = "solo" -> 4 [] OTHER -> 0

TalonCards(bt) == CASE bt = "three" -> 3 [] bt = "two" -> 2 [] bt = "one" -> 1
                    [] OTHER -> 0

Bid(p, bt) == [player_position |-> p, bid_type |-> bt,
               game_value |-> GameValue(bt), talon_cards |-> TalonCards(bt)]

\* a winning_bid / highest bid of None
NoBid == [player_position |-> NoPos, bid_type |-> "none",
          game_value |-> 0, talon_cards |-> 0]

VARIABLES
    phase, is_ready, hand, tricks_won, discard_pile, deck, talon,
    dealer_position, current_turn,
    bid_history, declarer_position, winning_bid, is_declarer,
    called_card_rank, partner_position, partner_revealed, is_partner,
    player_partner_revealed,
    current_trick, trick_leader, trick_number, previous_trick_winner,
    players_who_discarded, announcements, announcement_history,
    reply, phase_log, trick_history, suspended

cardVars == <<hand, tricks_won, discard_pile, deck, talon>>
bidVars == <<bid_history, declarer_position, winning_bid, is_declarer>>
partnerVars == <<called_card_rank, partner_position, partner_revealed,
                 is_partner, player_partner_revealed>>
trickVars == <<current_trick, trick_leader, trick_number, previous_trick_winner>>
annVars == <<announcements, announcement_history>>
\* every field of GameState and of its players
gsVars == <<phase, is_ready, cardVars, dealer_position, current_turn, bidVars,
            partnerVars, trickVars, players_who_discarded, annVars>>
vars == <<gsVars, reply, phase_log, trick_history, suspended>>


(***************************************************************************)
(* Helpers of GameState (models/game_state.py).                            *)
(***************************************************************************)
\* a variant of dealer_right_position that names the dealer
dealer_right_position_dealer == dealer_position

dealer_right_position == (dealer_position + 1) % NumPlayers

next_position(p) == (p + 1) % NumPlayers

\* max(non_pass_bids, key=game_value): Python's max keeps the first maximum
get_highest_bid(h) ==
    LET np == SelectSeq(h, LAMBDA b : b.bid_type # "pass")
    IN IF np = <<>> THEN NoBid
       ELSE np[CHOOSE i \in 1..Len(np) :
                  /\ \A j \in 1..Len(np) : np[j].game_value <= np[i].game_value
                  /\ \A j \in 1..(i - 1) : np[j].game_value < np[i].game_value]

\* a variant of is_higher_than that lets a bid of equal value through
is_higher_than_or_equal(bid, other) ==
    IF other = NoBid THEN bid.bid_type # "pass"
    ELSE IF bid.bid_type \in {"pass", "hold"} THEN FALSE
    ELSE IF other.bid_type = "pass" THEN TRUE
    ELSE bid.game_value >= other.game_value

is_higher_than(bid, other) ==
    IF other = NoBid THEN bid.bid_type # "pass"
    ELSE IF bid.bid_type \in {"pass", "hold"} THEN FALSE
    ELSE IF other.bid_type = "pass" THEN TRUE
    ELSE bid.game_value > other.game_value

player_has_bid(p, h) ==
    \E i \in 1..Len(h) : h[i].player_position = p /\ h[i].bid_type \notin {"pass", "hold"}

\* BiddingManager.can_player_bid: "OK" or the error message
can_player_bid(p, bt, h) ==
    IF bt \notin {"pass", "hold"} /\ ~has_honour(hand[p])
    THEN "Must have at least one honour to bid"
    ELSE IF bt = "hold" /\ ~player_has_bid(p, h)
    THEN "Cannot HOLD - must have already bid in this auction"
    ELSE IF bt = "hold" /\ get_highest_bid(h) = NoBid
    THEN "No bid to hold"
    ELSE IF bt \notin {"pass", "hold"} /\ ~is_higher_than(Bid(p, bt), get_highest_bid(h))
    THEN "Bid must be higher than current highest bid"
    ELSE "OK"

\* the checks GameState.place_bid repeats before it appends
place_bid_error(p, bt, h) ==
    IF p # current_turn THEN "Not this player's turn to bid"
    ELSE IF bt \notin {"pass", "hold"} /\ ~has_honour(hand[p])
    THEN "Player must have at least one honour to bid"
    ELSE IF bt = "hold" /\ ~player_has_bid(p, h)
    THEN "Cannot HOLD - player has not bid yet in this auction"
    ELSE IF bt \notin {"pass", "hold"} /\ ~is_higher_than(Bid(p, bt), get_highest_bid(h))
    THEN "Bid must be higher than current highest bid"
    ELSE "OK"

\* a variant of stored_bid in which a HOLD copies nothing
stored_bid_plain(p, bt, h) == Bid(p, bt)

\* the Bid object GameState.place_bid appends: a HOLD copies the highest bid
stored_bid(p, bt, h) ==
    IF bt = "hold" /\ get_highest_bid(h) # NoBid
    THEN [Bid(p, bt) EXCEPT !.game_value = get_highest_bid(h).game_value,
                            !.talon_cards = get_highest_bid(h).talon_cards]
    ELSE Bid(p, bt)

AllPass(s) == \A i \in 1..Len(s) : s[i].bid_type = "pass"

LastThree(s) == SubSeq(s, Len(s) - 2, Len(s))

\* a variant of is_bidding_complete that does not wait for the first round
is_bidding_complete_early(h) ==
    IF h = <<>> THEN FALSE
    ELSE IF \E i \in 1..Len(h) : h[i].bid_type = "solo" THEN TRUE
    ELSE Len(h) >= 3 /\ AllPass(LastThree(h))

\* GameState.is_bidding_complete
is_bidding_complete(h) ==
    IF h = <<>> THEN FALSE
    ELSE IF \E i \in 1..Len(h) : h[i].bid_type = "solo" THEN TRUE
    ELSE IF Len(h) >= 4 /\ AllPass(h) THEN TRUE
    ELSE IF Len(h) >= 4 /\ AllPass(LastThree(h)) THEN TRUE
    ELSE FALSE

\* a variant of is_auction_complete that does not wait for the first round
is_auction_complete_short(h) ==
    IF h = <<>> THEN FALSE
    ELSE IF \E i \in 1..Len(h) : h[i].bid_type = "solo" THEN TRUE
    ELSE Len(h) >= NumPlayers - 1 /\ AllPass(LastThree(h))

\* BiddingManager.is_auction_complete(bid_history, num_players = 4)
is_auction_complete(h) ==
    IF h = <<>> THEN FALSE
    ELSE IF \E i \in 1..Len(h) : h[i].bid_type = "solo" THEN TRUE
    ELSE IF Len(h) >= NumPlayers /\ AllPass(h) THEN TRUE
    ELSE IF Len(h) >= NumPlayers
         THEN LET last_three == SubSeq(h, Len(h) - (NumPlayers - 1) + 1, Len(h))
                  earlier_bids == SubSeq(h, 1, Len(h) - (NumPlayers - 1))
              IN /\ Len(last_three) = 3
                 /\ AllPass(last_three)
                 /\ ~AllPass(earlier_bids)
         ELSE FALSE

\* a variant of Deck.deal that hands out the cards and keeps them too
deal_keep(cards, n) ==
    IF n > Len(cards) THEN [raised |-> TRUE, dealt |-> <<>>, cards |-> cards]
    ELSE [raised |-> FALSE, dealt |-> SubSeq(cards, 1, n), cards |-> cards]

\* Deck.deal(num_cards) on a deck holding cards: whether it raised
\* ValueError, the list it returned and the cards the deck holds afterwards
deal(cards, n) ==
    IF n > Len(cards) THEN [raised |-> TRUE, dealt |-> <<>>, cards |-> cards]
    ELSE [raised |-> FALSE, dealt |-> SubSeq(cards, 1, n),
          cards |-> SubSeq(cards, n + 1, Len(cards))]

\* the deck after k calls of deal(1)
RECURSIVE DealOut(_, _)
DealOut(cards, k) == IF k = 0 THEN cards ELSE DealOut(deal(cards, 1).cards, k - 1)

\* start_dealing: what is left of deck order d after deal(6) and the nine
\* rounds of deal(1) to the four seats
DealtDeck(d) == DealOut(deal(d, TalonSize).cards, NumPlayers * HandSize)

\* start_dealing: the hands and the talon dealt from deck order d
DealtTalon(d) == SubSeq(d, 1, TalonSize)

DealtHands(d) ==
    [p \in Seats |->
        {d[TalonSize + NumPlayers * r + ((p - dealer_right_position + NumPlayers) % NumPlayers) + 1] :
            r \in 0..(HandSize - 1)}]

\* the slice s[a:b] of a list: indices past the end are cut to the end
Slice(s, a, b) ==
    SubSeq(s, (IF a < Len(s) THEN a ELSE Len(s)) + 1, IF b < Len(s) THEN b ELSE Len(s))

\* a variant of TalonShare that hands the declarer one card more, a card
\* another seat receives as well
TalonShare_overlap(t, d, n, p) ==
    LET remaining == SubSeq(t, n + 1, Len(t))
        cards_per_player == Len(remaining) \div 3
        i == IF p < d THEN p ELSE p - 1
    IN IF p = d THEN Range(SubSeq(t, 1, n + 1))
       ELSE Range(SubSeq(remaining, i * cards_per_player + 1, (i + 1) * cards_per_player))

\* a variant of TalonShare that hands everything the declarer leaves to the
\* first of the other seats
TalonShare_first_takes_rest(t, d, n, p) ==
    IF p = d THEN Range(SubSeq(t, 1, n))
    ELSE IF p = (IF d = 0 THEN 1 ELSE 0) THEN Range(SubSeq(t, n + 1, Len(t)))
    ELSE {}

\* distribute_talon: the cards of talon t that seat p receives when seat d
\* declared and takes n cards
TalonShare(t, d, n, p) ==
    LET remaining == Slice(t, n, Len(t))
        cards_per_player == Len(remaining) \div 3
        extra_cards == Len(remaining) % 3
        i == IF p < d THEN p ELSE p - 1
        cards_to_give == cards_per_player + (IF i < extra_cards THEN 1 ELSE 0)
        card_index == i * cards_per_player + (IF i < extra_cards THEN i ELSE extra_cards)
    IN IF p = d THEN Range(Slice(t, 0, n))
       ELSE Range(Slice(remaining, card_index, card_index + cards_to_give))

\* a variant of not_your_turn that lets every seat act
any_seat_may_act(p) == FALSE

\* the test every turn-based handler of server.py makes after its phase test
not_your_turn(p) == current_turn # p

(***************************************************************************)
(* Replies.  reply is the message of the error event the last handler sent *)
(* to its caller, or "OK"; phase_log lists the values the last handler     *)
(* assigned to phase, after the value it found.                            *)
(***************************************************************************)
Reject(msg) ==
    /\ reply' = msg
    /\ phase_log' = <<phase>>
    /\ UNCHANGED <<gsVars, trick_history, suspended>>

Init ==
    /\ phase = "waiting"
    /\ is_ready = [p \in Seats |-> FALSE]
    /\ hand = [p \in Seats |-> {}]
    /\ tricks_won = [p \in Seats |-> {}]
    /\ discard_pile = [p \in Seats |-> {}]
    /\ deck = <<>>
    /\ talon = <<>>
    /\ dealer_position = 0
    /\ current_turn = 0
    /\ bid_history = <<>>
    /\ declarer_position = NoPos
    /\ winning_bid = NoBid
    /\ is_declarer = [p \in Seats |-> FALSE]
    /\ called_card_rank = ""
    /\ partner_position = NoPos
    /\ partner_revealed = FALSE
    /\ is_partner = [p \in Seats |-> FALSE]
    /\ player_partner_revealed = [p \in Seats |-> FALSE]
    /\ current_trick = <<>>
    /\ trick_leader = NoPos
    /\ trick_number = 0
    /\ previous_trick_winner = NoPos
    /\ players_who_discarded = <<>>
    /\ announcements = <<>>
    /\ announcement_history = <<>>
    /\ trick_history = <<>>
    /\ suspended = {}
    /\ reply = ""
    /\ phase_log = <<"waiting">>

(***************************************************************************)
(* ready (server.py): marks the player ready and starts the game when      *)
(* Room.can_start_game holds: start_dealing, then start_bidding.           *)
(***************************************************************************)
\* a variant of can_start_game that does not look at the phase
can_start_game_any_phase(r) == \A p \in Seats : r[p]

can_start_game(r) == (\A p \in Seats : r[p]) /\ phase = "waiting"

\* GameState.start_dealing with deck order d, then GameState.start_bidding
StartDealingAndBidding(d) ==
    /\ phase' = "bidding"
    /\ phase_log' = <<phase, "dealing", "bidding">>
    /\ deck' = DealtDeck(d)
    /\ talon' = DealtTalon(d)
    /\ hand' = DealtHands(d)
    /\ tricks_won' = [q \in Seats |-> {}]
    /\ discard_pile' = [q \in Seats |-> {}]
    /\ is_declarer' = [q \in Seats |-> FALSE]
    /\ is_partner' = [q \in Seats |-> FALSE]
    /\ player_partner_revealed' = [q \in Seats |-> FALSE]
    /\ bid_history' = <<>>
    /\ current_turn' = dealer_right_position

Ready(p) ==
    LET r == [is_ready EXCEPT ![p] = TRUE]
    IN /\ is_ready' = r
       /\ reply' = "OK"
       /\ IF can_start_game(r)
          THEN /\ \E d \in Shuffles : StartDealingAndBidding(d)
               /\ UNCHANGED <<suspended, trick_history, dealer_position, declarer_position, winning_bid,
                              called_card_rank, partner_position, partner_revealed,
                              trickVars, players_who_discarded, annVars>>
          ELSE /\ phase_log' = <<phase>>
               /\ UNCHANGED <<suspended, trick_history, phase, cardVars, dealer_position, current_turn, bidVars,
                              partnerVars, trickVars, players_who_discarded, annVars>>

(***************************************************************************)
(* place_bid (server.py) with GameState.place_bid, is_bidding_complete,    *)
(* end_bidding, handle_talon_distribution (distribute_talon and            *)
(* start_discard_phase) and the all-pass redeal.                           *)
(***************************************************************************)
PlaceBid(p, bt) ==
    IF phase # "bidding" THEN Reject("Not in bidding phase")
    ELSE IF not_your_turn(p) THEN Reject("Not your turn")
    ELSE IF can_player_bid(p, bt, bid_history) # "OK"
    THEN Reject(can_player_bid(p, bt, bid_history))
    ELSE IF place_bid_error(p, bt, bid_history) # "OK"
    THEN Reject(place_bid_error(p, bt, bid_history))
    ELSE
      LET h == Append(bid_history, stored_bid(p, bt, bid_history))
          turn == IF bt = "solo" THEN current_turn ELSE next_position(current_turn)
          wb == get_highest_bid(h)
      IN /\ reply' = "OK"
         /\ UNCHANGED <<suspended, trick_history, is_ready, dealer_position, called_card_rank, partner_position,
                        partner_revealed, trickVars, annVars>>
         /\ IF ~is_bidding_complete(h)
            THEN /\ bid_history' = h
                 /\ current_turn' = turn
                 /\ phase_log' = <<phase>>
                 /\ UNCHANGED <<phase, cardVars, declarer_position, winning_bid,
                                is_declarer, is_partner, player_partner_revealed,
                                players_who_discarded>>
            ELSE IF wb # NoBid
            THEN \* end_bidding, distribute_talon, start_discard_phase
                 /\ bid_history' = h
                 /\ winning_bid' = wb
                 /\ declarer_position' = wb.player_position
                 /\ is_declarer' = [is_declarer EXCEPT ![wb.player_position] = TRUE]
                 /\ hand' = [q \in Seats |->
                               hand[q] \cup TalonShare(talon, wb.player_position,
                                                       wb.talon_cards, q)]
                 /\ talon' = <<>>
                 /\ phase' = "discarding"
                 /\ phase_log' = <<phase, "talon_distribution", "discarding">>
                 /\ players_who_discarded' = <<>>
                 /\ current_turn' = dealer_right_position
                 /\ UNCHANGED <<tricks_won, discard_pile, deck, is_partner,
                                player_partner_revealed>>
            ELSE \* all passed: end_bidding finds no bid; start_dealing, start_bidding
                 /\ winning_bid' = NoBid
                 /\ \E d \in Shuffles : StartDealingAndBidding(d)
                 /\ UNCHANGED <<declarer_position, players_who_discarded>>

(***************************************************************************)
(* discard_cards (server.py) with validate_discard, Player.discard_cards   *)
(* and handle_partner_call_phase.  card_ids is the list the client sent.   *)
(***************************************************************************)
\* validate_discard over the cards of the hand whose id is in card_ids
validate_discard(cs) ==
    IF \E c \in cs : is_king(c) THEN "Cannot discard Kings"
    ELSE IF \E c \in cs : is_honour(c) THEN "Cannot discard Honours"
    ELSE "OK"

\* first loop of Player.discard_cards: every id is looked up in the hand
discard_lookup_error(h, card_ids) ==
    IF \E i \in 1..Len(card_ids) : card_ids[i] \notin h
    THEN "Card not found in hand"
    ELSE IF \E i \in 1..Len(card_ids) : ~can_be_discarded(card_ids[i])
    THEN "Card cannot be discarded (Kings and Honours are protected)"
    ELSE "OK"

\* second loop of Player.discard_cards: hand.remove(card) raises at the
\* first card that an earlier iteration already removed; the result is the
\* index of that iteration, or 0 when every remove succeeds
FirstRepeat(card_ids) ==
    IF \E i \in 1..Len(card_ids) : \E j \in 1..(i - 1) : card_ids[j] = card_ids[i]
    THEN CHOOSE i \in 1..Len(card_ids) :
            /\ \E j \in 1..(i - 1) : card_ids[j] = card_ids[i]
            /\ \A k \in 1..(i - 1) : \A j \in 1..(k - 1) : card_ids[j] # card_ids[k]
    ELSE 0

\* the cards the second loop has moved to the discard pile when it stops
MovedCards(card_ids) ==
    IF FirstRepeat(card_ids) = 0 THEN Range(card_ids)
    ELSE Range(SubSeq(card_ids, 1, FirstRepeat(card_ids) - 1))

\* a variant of num_to_discard that asks for one card more
num_to_discard_more(h) == Cardinality(h) - HandSize + 1

\* the number of cards the handler asks of a hand h (target_hand_size = 9)
num_to_discard(h) == Cardinality(h) - HandSize

can_end_discard_phase(who) == Len(who) = 4

DiscardCards(p, card_ids) ==
    IF phase # "discarding" THEN Reject("Not in discarding phase")
    ELSE IF not_your_turn(p) THEN Reject("Not your turn")
    ELSE IF Len(card_ids) # num_to_discard(hand[p])
    THEN Reject("Must discard exactly n cards")
    ELSE IF validate_discard(hand[p] \cap Range(card_ids)) # "OK"
    THEN Reject(validate_discard(hand[p] \cap Range(card_ids)))
    ELSE IF discard_lookup_error(hand[p], card_ids) # "OK"
    THEN Reject(discard_lookup_error(hand[p], card_ids))
    ELSE
      /\ hand' = [hand EXCEPT ![p] = @ \ MovedCards(card_ids)]
      /\ discard_pile' = [discard_pile EXCEPT ![p] = @ \cup MovedCards(card_ids)]
      /\ UNCHANGED <<suspended, trick_history, is_ready, tricks_won, deck, talon, dealer_position, bidVars,
                     partnerVars, trickVars, annVars>>
      /\ IF FirstRepeat(card_ids) # 0
         THEN /\ reply' = "list.remove(x): x not in list"
              /\ phase_log' = <<phase>>
              /\ UNCHANGED <<phase, current_turn, players_who_discarded>>
         ELSE /\ reply' = "OK"
              /\ players_who_discarded' = Append(players_who_discarded, p)
              /\ IF can_end_discard_phase(Append(players_who_discarded, p))
                 THEN /\ phase' = "partner_call"
                      /\ phase_log' = <<phase, "partner_call">>
                      /\ UNCHANGED current_turn
                 ELSE /\ current_turn' = next_position(current_turn)
                      /\ phase_log' = <<phase>>
                      /\ UNCHANGED phase

(***************************************************************************)
(* call_partner (server.py) with GameState.call_partner and                *)
(* start_announcement_phase.                                               *)
(***************************************************************************)
HoldersOf(rank) == {q \in Seats : \E c \in hand[q] : is_tarokk(c) /\ Rank(c) = rank}

\* a variant of FirstHolder that makes the declarer the partner
FirstHolder_declarer(rank) == declarer_position

\* the first player, in list order, whose hand holds the called card
FirstHolder(rank) == CHOOSE q \in HoldersOf(rank) : \A r \in HoldersOf(rank) : q <= r

CallPartner(p, tarokk_rank) ==
    IF phase # "partner_call" THEN Reject("Not in partner call phase")
    ELSE IF p # declarer_position THEN Reject("Only declarer can call partner")
    ELSE IF tarokk_rank = "" THEN Reject("Must specify tarokk rank")
    ELSE
      /\ called_card_rank' = tarokk_rank
      /\ UNCHANGED <<suspended, trick_history, is_ready, cardVars, dealer_position, bidVars, partner_revealed,
                     player_partner_revealed, trickVars, players_who_discarded>>
      /\ IF HoldersOf(tarokk_rank) = {}
         THEN /\ reply' = "Called card not found in any player's hand"
              /\ phase_log' = <<phase>>
              /\ UNCHANGED <<phase, current_turn, partner_position, is_partner, annVars>>
         ELSE /\ reply' = "OK"
              /\ partner_position' = FirstHolder(tarokk_rank)
              /\ is_partner' = [is_partner EXCEPT ![FirstHolder(tarokk_rank)] = TRUE]
              /\ phase' = "announcements"
              /\ phase_log' = <<phase, "announcements">>
              /\ announcement_history' = <<>>
              /\ announcements' = <<>>
              /\ current_turn' = declarer_position

(***************************************************************************)
(* make_announcement, pass_announcement, contra_announcement and           *)
(* recontra_announcement (server.py) with can_announce (validation/rules), *)
(* GameState.make_announcement, player_pass_announcement,                  *)
(* is_announcement_phase_complete and start_playing.                       *)
(***************************************************************************)
AnnouncementTypes == {"trull", "four_kings", "double_game", "volat",
                      "pagat_ultimo", "xxi_catch"}

Announcement(p, t, a) == [player_position |-> p, announcement_type |-> t, announced |-> a]

\* the None that player_pass_announcement appends to announcement_history
PassEntry == [player_position |-> NoPos, announcement_type |-> "none", announced |-> FALSE]

\* a variant of can_announce that asks for no card
can_announce_freely(h, t) ==
    IF t \in AnnouncementTypes THEN "OK" ELSE "Unknown announcement type"

can_announce(h, t) ==
    IF t \in {"trull", "four_kings", "double_game", "volat"} THEN "OK"
    ELSE IF t = "pagat_ultimo"
    THEN (IF \E c \in h : is_honour(c) /\ Rank(c) = "I" THEN "OK"
          ELSE "Must have pagat (I) to announce pagat ultimo")
    ELSE IF t = "xxi_catch"
    THEN (IF \E c \in h : is_honour(c) /\ Rank(c) = "skiz" THEN "OK"
          ELSE "Must have skiz to announce XXI catch")
    ELSE "Unknown announcement type"

\* what the loop of make_announcement raises for one entry of the list
announce_error(h, t) ==
    IF t \notin AnnouncementTypes THEN "not a valid AnnouncementType"
    ELSE can_announce(h, t)

\* index of the first entry at which the loop raises, or 0
FirstRejected(h, types) ==
    IF \E i \in 1..Len(types) : announce_error(h, types[i]) # "OK"
    THEN CHOOSE i \in 1..Len(types) :
            /\ announce_error(h, types[i]) # "OK"
            /\ \A j \in 1..(i - 1) : announce_error(h, types[j]) = "OK"
    ELSE 0

\* the entries the loop has added when it stops
AddedAnnouncements(p, types, a) ==
    LET k == FirstRejected(hand[p], types)
        n == IF k = 0 THEN Len(types) ELSE k - 1
    IN [i \in 1..n |-> Announcement(p, types[i], a)]

\* a variant of is_announcement_phase_complete that looks at two entries
is_announcement_phase_complete_two(hist) ==
    IF Len(hist) < 2 THEN FALSE
    ELSE \A i \in (Len(hist) - 1)..Len(hist) : hist[i] = PassEntry

is_announcement_phase_complete(hist) ==
    IF Len(hist) < 3 THEN FALSE
    ELSE \A i \in (Len(hist) - 2)..Len(hist) : hist[i] = PassEntry

\* a variant of start_playing that leaves the announcements for the scoring
StartPlaying_skip ==
    /\ phase' = "scoring"
    /\ phase_log' = <<phase, "scoring">>
    /\ trick_number' = 1
    /\ trick_leader' = dealer_right_position
    /\ current_turn' = dealer_right_position
    /\ current_trick' = <<>>
    /\ UNCHANGED previous_trick_winner

\* start_playing
StartPlaying ==
    /\ phase' = "playing"
    /\ phase_log' = <<phase, "playing">>
    /\ trick_number' = 1
    /\ trick_leader' = dealer_right_position
    /\ current_turn' = dealer_right_position
    /\ current_trick' = <<>>
    /\ UNCHANGED previous_trick_winner

MakeAnnouncement(p, types, a) ==
    IF phase # "announcements" THEN Reject("Not in announcement phase")
    ELSE IF not_your_turn(p) THEN Reject("Not your turn")
    ELSE
      LET added == AddedAnnouncements(p, types, a)
          k == FirstRejected(hand[p], types)
          hist == announcement_history \o added
          \* GameState.make_announcement moves the turn once per entry added
          turn == (current_turn + Len(added)) % NumPlayers
      IN /\ announcements' = announcements \o added
         /\ announcement_history' = hist
         /\ UNCHANGED <<suspended, trick_history, is_ready, cardVars, dealer_position, bidVars, partnerVars,
                        players_who_discarded>>
         /\ IF k # 0
            THEN /\ reply' = announce_error(hand[p], types[k])
                 /\ current_turn' = turn
                 /\ phase_log' = <<phase>>
                 /\ UNCHANGED <<phase, trickVars>>
            ELSE /\ reply' = "OK"
                 /\ IF is_announcement_phase_complete(hist)
                    THEN StartPlaying
                    ELSE /\ current_turn' = turn
                         /\ phase_log' = <<phase>>
                         /\ UNCHANGED <<phase, trickVars>>

PassAnnouncement(p) ==
    IF phase # "announcements" THEN Reject("Not in announcement phase")
    ELSE IF not_your_turn(p) THEN Reject("Not your turn")
    ELSE
      LET hist == Append(announcement_history, PassEntry)
      IN /\ reply' = "OK"
         /\ announcement_history' = hist
         /\ UNCHANGED <<suspended, trick_history, is_ready, cardVars, dealer_position, bidVars, partnerVars,
                        players_who_discarded, announcements>>
         /\ IF is_announcement_phase_complete(hist)
            THEN StartPlaying
            ELSE /\ current_turn' = next_position(current_turn)
                 /\ phase_log' = <<phase>>
                 /\ UNCHANGED <<phase, trickVars>>

HasAnnouncement(t) == \E i \in 1..Len(announcements) : announcements[i].announcement_type = t

\* Announcement (models/announcement.py) declares no contra field: reading
\* announcement.contra raises AttributeError, which the handler reports
ContraAnnouncement(p, t) ==
    IF phase # "announcements" THEN Reject("Not in announcement phase")
    ELSE IF not_your_turn(p) THEN Reject("Not your turn")
    ELSE IF ~HasAnnouncement(t) THEN Reject("No announcement of that type found")
    ELSE Reject("'Announcement' object has no attribute 'contra'")

RecontraAnnouncement(p, t) ==
    IF phase # "announcements" THEN Reject("Not in announcement phase")
    ELSE IF not_your_turn(p) THEN Reject("Not your turn")
    ELSE IF ~HasAnnouncement(t) THEN Reject("No announcement of that type found")
    ELSE Reject("'Announcement' object has no attribute 'contra'")

(***************************************************************************)
(* play_card (server.py) with get_legal_cards (validation/rules),          *)
(* GameState.play_card_to_trick, complete_trick, _determine_trick_winner   *)
(* and handle_game_over.                                                   *)
(***************************************************************************)
\* a variant of get_legal_cards that lets every card of the hand be played
get_legal_cards_any(h, lead_suit, is_first_card) == h

get_legal_cards(h, lead_suit, is_first_card) ==
    IF is_first_card THEN h
    ELSE IF {c \in h : Suit(c) = lead_suit} # {} THEN {c \in h : Suit(c) = lead_suit}
    ELSE IF {c \in h : is_tarokk(c)} # {} THEN {c \in h : is_tarokk(c)}
    ELSE h

TrickCards(trick) == {trick[i][2] : i \in 1..Len(trick)}

\* max(plays, key=...): the first play, in the order played, with the
\* greatest key
FirstMax(plays, key) ==
    plays[CHOOSE i \in 1..Len(plays) :
             /\ \A j \in 1..Len(plays) : key[plays[j][2]] <= key[plays[i][2]]
             /\ \A j \in 1..(i - 1) : key[plays[j][2]] < key[plays[i][2]]][1]

\* a variant of determine_trick_winner that gives the trick to its leader
determine_trick_winner_leader(trick, lead_suit) == trick[1][1]

determine_trick_winner(trick, lead_suit) ==
    LET tarokk_plays == SelectSeq(trick, LAMBDA x : is_tarokk(x[2]))
        lead_suit_plays == SelectSeq(trick, LAMBDA x : Suit(x[2]) = lead_suit)
    IN IF tarokk_plays # <<>>
       THEN FirstMax(tarokk_plays, [c \in TrickCards(tarokk_plays) |-> tarokk_value(c)])
       ELSE FirstMax(lead_suit_plays,
                     [c \in TrickCards(lead_suit_plays) |-> suit_rank_value(c)])

\* a variant of is_called_card that takes every tarokk for the called card
is_called_card_any_tarokk(card_id) == is_tarokk(card_id)

\* play_card_to_trick: is the card played the called card
is_called_card(card_id) == is_tarokk(card_id) /\ Rank(card_id) = called_card_rank

PlayCard(p, card_id) ==
    IF phase # "playing" THEN Reject("Not in playing phase")
    ELSE IF not_your_turn(p) THEN Reject("Not your turn")
    ELSE IF card_id \notin hand[p] THEN Reject("Card not in hand")
    ELSE IF card_id \notin get_legal_cards(hand[p],
                              IF current_trick = <<>> THEN "none"
                              ELSE Suit(current_trick[1][2]),
                              current_trick = <<>>)
    THEN Reject("Illegal card play - must follow suit or play tarokk if void")
    ELSE
      LET trick == Append(current_trick, <<p, card_id>>)
          called == is_called_card(card_id) /\ ~partner_revealed
          \* play_card_to_trick: the called card reveals the partner
          revealed == partner_revealed \/ called
          seat_revealed == IF called /\ partner_position # NoPos
                           THEN [player_partner_revealed EXCEPT ![partner_position] = TRUE]
                           ELSE player_partner_revealed
          winner_pos == determine_trick_winner(trick, Suit(trick[1][2]))
      IN /\ reply' = "OK"
         /\ hand' = [hand EXCEPT ![p] = @ \ {card_id}]
         /\ UNCHANGED <<suspended, trick_history, is_ready, discard_pile, deck, talon, dealer_position, bidVars,
                        called_card_rank, partner_position, is_partner,
                        players_who_discarded, annVars>>
         /\ IF Len(trick) # 4
            THEN /\ current_trick' = trick
                 /\ current_turn' = next_position(current_turn)
                 /\ partner_revealed' = revealed
                 /\ player_partner_revealed' = seat_revealed
                 /\ phase_log' = <<phase>>
                 /\ UNCHANGED <<phase, tricks_won, trick_leader, trick_number,
                                previous_trick_winner>>
            ELSE \* complete_trick
                 /\ tricks_won' = [tricks_won EXCEPT ![winner_pos] = @ \cup TrickCards(trick)]
                 /\ previous_trick_winner' = winner_pos
                 /\ current_trick' = <<>>
                 /\ trick_number' = trick_number + 1
                 /\ IF trick_number + 1 <= NumTricks
                    THEN /\ trick_leader' = winner_pos
                         /\ current_turn' = winner_pos
                         /\ partner_revealed' = revealed
                         /\ player_partner_revealed' = seat_revealed
                         /\ phase_log' = <<phase>>
                         /\ UNCHANGED phase
                    ELSE \* phase SCORING, then handle_game_over
                         /\ partner_revealed' = (revealed \/ partner_position # NoPos)
                         /\ player_partner_revealed' =
                              IF ~revealed /\ partner_position # NoPos
                              THEN [seat_revealed EXCEPT ![partner_position] = TRUE]
                              ELSE seat_revealed
                         /\ phase' = "game_end"
                         /\ phase_log' = <<phase, "scoring", "game_end">>
                         /\ UNCHANGED <<trick_leader, current_turn>>

(***************************************************************************)
(* game_logic/announcement_checker.py and game_logic/final_scoring.py.     *)
(* tw and dp are the players' tricks_won and discard_pile, th a trick      *)
(* history: a sequence of [winner, cards], cards a sequence of <<seat,     *)
(* card>>.                                                                 *)
(***************************************************************************)
WinThreshold == 48
DoubleGameThreshold == 71
StartScore == 50

check_trull(tw, p) ==
    /\ Cardinality({c \in tw[p] : is_honour(c)}) = 3
    /\ {Rank(c) : c \in {x \in tw[p] : is_honour(x)}} = {"skiz", "XXI", "I"}

check_four_kings(tw, p) == Cardinality({c \in tw[p] : is_king(c)}) = 4

check_double_game(team_points) == team_points >= DoubleGameThreshold

check_volat(team_tricks) == team_tricks = NumTricks

check_pagat_ultimo(th, p) ==
    IF Len(th) < NumTricks THEN FALSE
    ELSE /\ th[NumTricks].winner = p
         /\ \E i \in 1..Len(th[NumTricks].cards) :
               /\ th[NumTricks].cards[i][1] = p
               /\ is_tarokk(th[NumTricks].cards[i][2])
               /\ Rank(th[NumTricks].cards[i][2]) = "I"

check_xxi_catch(th, p) ==
    \E k \in 1..Len(th) :
       /\ th[k].winner = p
       /\ \E i \in 1..Len(th[k].cards) :
             /\ th[k].cards[i][1] = p
             /\ is_tarokk(th[k].cards[i][2]) /\ Rank(th[k].cards[i][2]) = "skiz"
       /\ \E i \in 1..Len(th[k].cards) :
             /\ th[k].cards[i][1] # p
             /\ is_tarokk(th[k].cards[i][2]) /\ Rank(th[k].cards[i][2]) = "XXI"

SumSeats(f) == f[0] + f[1] + f[2] + f[3]

\* a variant of calculate_team_scores that counts the partner's discards
\* for both teams
calculate_team_scores_both(tw, dp, declarer, partner) ==
    << SumSeats([p \in Seats |->
                  IF p \in {declarer, partner} THEN SumPoints(tw[p]) + SumPoints(dp[p])
                  ELSE 0]),
       SumSeats([p \in Seats |->
                  IF p = declarer THEN 0
                  ELSE IF p = partner THEN SumPoints(dp[p])
                  ELSE SumPoints(tw[p]) + SumPoints(dp[p])]) >>

\* calculate_team_scores: <<declarer_team_points, opponent_team_points>>
calculate_team_scores(tw, dp, declarer, partner) ==
    << SumSeats([p \in Seats |->
                  IF p = declarer THEN SumPoints(tw[p]) + SumPoints(dp[p])
                  ELSE IF p = partner THEN SumPoints(tw[p])
                  ELSE 0]),
       SumSeats([p \in Seats |->
                  IF p = declarer THEN 0
                  ELSE IF p = partner THEN SumPoints(dp[p])
                  ELSE SumPoints(tw[p]) + SumPoints(dp[p])]) >>

\* GameState.calculate_scores, called when declarer and partner are set:
\* <<declarer_team_points, opponent_team_points>>
calculate_scores ==
    << SumSeats([p \in Seats |->
                  IF p = declarer_position \/ p = partner_position
                  THEN SumPoints(tricks_won[p]) + SumPoints(discard_pile[p]) ELSE 0]),
       SumSeats([p \in Seats |->
                  IF p = declarer_position \/ p = partner_position
                  THEN 0 ELSE SumPoints(tricks_won[p]) + SumPoints(discard_pile[p])]) >>

declarer_team_wins == calculate_scores[1] >= WinThreshold

\* scoring.validate_total_points
TotalPoints == 94

validate_total_points(declarer_team_points, opponent_team_points) ==
    declarer_team_points + opponent_team_points = TotalPoints

check_announcement_achieved(a, tw, declarer, partner, th, dtp, otp) ==
    LET p == a.player_position
        is_declarer_team == p \in {declarer, partner}
        t == a.announcement_type
    IN CASE t = "trull" -> check_trull(tw, p)
         [] t = "four_kings" -> check_four_kings(tw, p)
         [] t = "double_game" -> check_double_game(IF is_declarer_team THEN dtp ELSE otp)
         [] t = "volat" ->
              check_volat(SumSeats([q \in Seats |->
                  IF (q \in {declarer, partner}) = is_declarer_team
                  THEN Cardinality(tw[q]) \div 4 ELSE 0]))
         [] t = "pagat_ultimo" -> check_pagat_ultimo(th, p)
         [] t = "xxi_catch" -> check_xxi_catch(th, p)
         [] OTHER -> FALSE

RECURSIVE SilentFrom(_, _, _)
SilentFrom(p, tw, anns) ==
    IF p >= NumPlayers THEN <<>>
    ELSE (IF Announcement(p, "trull", TRUE) \notin Range(anns)
             /\ Announcement(p, "trull", FALSE) \notin Range(anns)
             /\ check_trull(tw, p)
          THEN <<Announcement(p, "trull", FALSE)>> ELSE <<>>)
         \o (IF Announcement(p, "four_kings", TRUE) \notin Range(anns)
                /\ Announcement(p, "four_kings", FALSE) \notin Range(anns)
                /\ check_four_kings(tw, p)
             THEN <<Announcement(p, "four_kings", FALSE)>> ELSE <<>>)
         \o SilentFrom(p + 1, tw, anns)

\* a variant of check_silent_achievements that does not look at the ledger
check_silent_achievements_all(tw, anns) == SilentFrom(0, tw, <<>>)

check_silent_achievements(tw, anns) == SilentFrom(0, tw, anns)

get_points(a) ==
    CASE a.announcement_type \in {"trull", "four_kings"} -> IF a.announced THEN 2 ELSE 1
      [] a.announcement_type = "pagat_ultimo" -> IF a.announced THEN 10 ELSE 5
      [] a.announcement_type = "xxi_catch" -> IF a.announced THEN 42 ELSE 21
      [] OTHER -> 0

get_multiplier(a) ==
    CASE a.announcement_type = "double_game" -> IF a.announced THEN 2 ELSE 1
      [] a.announcement_type = "volat" -> IF a.announced THEN 3 ELSE 1
      [] OTHER -> 1

\* a variant of GameMultiplier that multiplies the multipliers
RECURSIVE GameMultiplier_product(_, _)
GameMultiplier_product(achieved, m) ==
    IF achieved = <<>> THEN m
    ELSE GameMultiplier_product(Tail(achieved),
            IF Head(achieved).announcement_type \in {"double_game", "volat"}
            THEN m * get_multiplier(Head(achieved)) ELSE m)

\* the largest multiplier of an achieved double game or volat, starting at 1
RECURSIVE GameMultiplier(_, _)
GameMultiplier(achieved, m) ==
    IF achieved = <<>> THEN m
    ELSE LET a == Head(achieved)
             mult == get_multiplier(a)
         IN GameMultiplier(Tail(achieved),
                           IF a.announcement_type \in {"double_game", "volat"} /\ mult > m
                           THEN mult ELSE m)

\* lines 128-147: what the base game adds to the score of seat i
BasePayment(i, declarer, partner, declarer_won, final_game_value) ==
    IF declarer_won
    THEN (IF i \in {declarer, partner} THEN final_game_value * 2 ELSE 0 - final_game_value)
    ELSE (IF i \in {declarer, partner} THEN 0 - final_game_value * 2 ELSE final_game_value)

\* lines 152-169: what one achieved announcement adds to the score of seat i
\* (a failed one, lines 182-198, takes the same amounts away)
AnnouncementPayment(i, a, declarer, partner) ==
    LET pos == a.player_position
        points == get_points(a)
    IN IF pos \in {declarer, partner}
       THEN (IF i = pos THEN points * Cardinality(Seats \ {declarer, partner}) ELSE 0)
            - (IF i \notin {declarer, partner} THEN points ELSE 0)
       ELSE (IF i = pos THEN points * 2 ELSE 0)
            - (IF i = declarer THEN points ELSE 0) - (IF i = partner THEN points ELSE 0)

RECURSIVE AnnouncementPayments(_, _, _, _)
AnnouncementPayments(i, anns, declarer, partner) ==
    IF anns = <<>> THEN 0
    ELSE AnnouncementPayment(i, Head(anns), declarer, partner)
         + AnnouncementPayments(i, Tail(anns), declarer, partner)

\* calculate_final_score.  raised: the call ends in the AttributeError of
\* announcement.contra (lines 177, 206), which it reads for every achieved
\* and every failed announcement; Announcement has no such field.
calculate_final_score(tw, dp, declarer, partner, bid, anns, th) ==
    LET points == calculate_team_scores(tw, dp, declarer, partner)
        declarer_won == points[1] >= WinThreshold
        ok(a) == check_announcement_achieved(a, tw, declarer, partner, th,
                                             points[1], points[2])
        achieved == SelectSeq(anns, ok) \o check_silent_achievements(tw, anns)
        failed == SelectSeq(anns, LAMBDA a : ~ok(a))
        final_game_value == bid.game_value * GameMultiplier(achieved, 1)
    IN [raised |-> achieved \o failed # <<>>,
        declarer_team_points |-> points[1],
        opponent_team_points |-> points[2],
        winner |-> IF declarer_won THEN "declarer_team" ELSE "opponent_team",
        final_game_value |-> final_game_value,
        achieved_announcements |-> achieved,
        failed_announcements |-> failed,
        player_scores |->
            [i \in Seats |-> StartScore
                + BasePayment(i, declarer, partner, declarer_won, final_game_value)
                + AnnouncementPayments(i, achieved, declarer, partner)
                - AnnouncementPayments(i, failed, declarer, partner)]]

\* the settlement of the hand in the current state.  trick_history is the
\* argument of that name: no handler records the tricks, so it is empty in
\* every hand reached through the handlers
FinalScore ==
    calculate_final_score(tricks_won, discard_pile, declarer_position, partner_position,
                          winning_bid, announcements, trick_history)

(***************************************************************************)
(* The commands the four clients send.  Every list below is a choice of    *)
(* payloads: the handlers accept any payload, the model explores these.    *)
(***************************************************************************)
MinOf(S) == CHOOSE x \in S : \A y \in S : x <= y

MaxOf(S) == CHOOSE x \in S : \A y \in S : y <= x

RECURSIVE SortedSeq(_)
SortedSeq(S) == IF S = {} THEN <<>> ELSE <<MinOf(S)>> \o SortedSeq(S \ {MinOf(S)})

Lowest(S, n) == SubSeq(SortedSeq(S), 1, IF n <= Cardinality(S) THEN n ELSE Cardinality(S))

Highest(S, n) == SubSeq(SortedSeq(S), IF n <= Cardinality(S) THEN Cardinality(S) - n + 1 ELSE 1,
                        Cardinality(S))

\* card_ids payloads of seat p: the lowest cards that follow the rules (for
\* the declarer the highest ones as well), and one payload each with
\* a wrong count, a protected card, a card of another zone, a repeated id
DiscardInputs(p) ==
    LET n == Cardinality(hand[p]) - HandSize
        free == {c \in hand[p] : can_be_discarded(c)}
        kept == hand[p] \ free
    IN {Lowest(free, n), Lowest(free, n + 1)}
       \cup (IF p = declarer_position THEN {Highest(free, n)} ELSE {})
       \cup (IF n >= 1 /\ kept # {} THEN {<<MinOf(kept)>> \o Lowest(free, n - 1)} ELSE {})
       \cup (IF n >= 1 THEN {<<MinOf(Cards \ hand[p])>> \o Lowest(free, n - 1)} ELSE {})
       \cup (IF n >= 2 THEN {<<MinOf(free), MinOf(free)>> \o Lowest(free \ {MinOf(free)}, n - 2)}
             ELSE {})

\* the bids sent in the model of the whole hand
HandBidTypes == {"three", "pass"}

CallRanks == {"XX", "II"}

AnnounceInputs == {<<"trull">>, <<"double_game", "xxi_catch">>}

\* card_id payloads of seat p: the lowest legal card, the lowest card of the
\* hand that is not legal, and a card that is not in the hand
PlayInputs(p) ==
    LET legal == get_legal_cards(hand[p],
                                 IF current_trick = <<>> THEN "none"
                                 ELSE Suit(current_trick[1][2]),
                                 current_trick = <<>>)
    IN (IF legal # {} THEN {MinOf(legal)} ELSE {})
       \cup (IF hand[p] \ legal # {} THEN {MinOf(hand[p] \ legal)} ELSE {})
       \cup {MinOf(Cards \ hand[p])}

Next ==
    \/ \E p \in Seats : Ready(p)
    \/ \E p \in Seats, bt \in HandBidTypes : Len(bid_history) < MaxBids /\ PlaceBid(p, bt)
    \/ \E p \in Seats : \E card_ids \in DiscardInputs(p) : DiscardCards(p, card_ids)
    \/ \E p \in Seats, r \in CallRanks : CallPartner(p, r)
    \/ \E p \in Seats, ts \in AnnounceInputs :
          Len(announcements) < MaxAnnouncements /\ MakeAnnouncement(p, ts, TRUE)
    \/ \E p \in Seats : PassAnnouncement(p)
    \/ \E p \in Seats, t \in AnnouncementTypes : ContraAnnouncement(p, t)
    \/ \E p \in Seats, t \in AnnouncementTypes : RecontraAnnouncement(p, t)
    \/ \E p \in Seats : \E c \in PlayInputs(p) : PlayCard(p, c)

Spec == Init /\ [][Next]_vars

(***************************************************************************)
(* The auction alone, with every kind of bid.                              *)
(***************************************************************************)
NextAuction ==
    \/ \E p \in Seats : Ready(p)
    \/ \E p \in Seats, bt \in BidTypes : Len(bid_history) < MaxBids /\ PlaceBid(p, bt)

SpecAuction == Init /\ [][NextAuction]_vars

(***************************************************************************)
(* The hand up to the first trick, with every kind of announcement, alone  *)
(* or two in one command, and a silent one.                                *)
(***************************************************************************)
AllAnnounceInputs ==
    {<<<<t>>, TRUE>> : t \in AnnouncementTypes}
    \cup {<<<<"trull", "pagat_ultimo">>, TRUE>>, <<<<"xxi_catch", "volat">>, TRUE>>,
          <<<<"pagat_ultimo">>, FALSE>>}

ContraInputs == {"trull", "pagat_ultimo"}

NextAnnounce ==
    \/ \E p \in Seats : Ready(p)
    \/ \E p \in Seats, bt \in HandBidTypes : Len(bid_history) < MaxBids /\ PlaceBid(p, bt)
    \/ \E p \in Seats : \E card_ids \in DiscardInputs(p) : DiscardCards(p, card_ids)
    \/ \E p \in Seats, r \in CallRanks : CallPartner(p, r)
    \/ \E p \in Seats, in \in AllAnnounceInputs :
          Len(announcements) < MaxLedger /\ MakeAnnouncement(p, in[1], in[2])
    \/ \E p \in Seats : PassAnnouncement(p)
    \/ \E p \in Seats, t \in ContraInputs : ContraAnnouncement(p, t)
    \/ \E p \in Seats, t \in ContraInputs : RecontraAnnouncement(p, t)

SpecAnnounce == Init /\ [][NextAnnounce]_vars

(***************************************************************************)
(* The hand up to the call of the partner, with every kind of bid.         *)
(***************************************************************************)
NextDiscard ==
    \/ \E p \in Seats : Ready(p)
    \/ \E p \in Seats, bt \in BidTypes : Len(bid_history) < MaxBids /\ PlaceBid(p, bt)
    \/ \E p \in Seats : \E card_ids \in DiscardInputs(p) : DiscardCards(p, card_ids)
    \/ \E p \in Seats, r \in CallRanks : CallPartner(p, r)

SpecDiscard == Init /\ [][NextDiscard]_vars

(***************************************************************************)
(* BiddingManager.is_auction_complete is a static function of a bid log.   *)
(* SpecLog applies it to every log of at most MaxLogLen entries, the seats *)
(* taking turns from the dealer's right; reply receives what it returns.   *)
(***************************************************************************)
RECURSIVE BidLogs(_)
BidLogs(n) ==
    IF n = 0 THEN {<<>>}
    ELSE BidLogs(n - 1)
         \cup {Append(h, Bid((Len(h) + 1) % NumPlayers, bt)) :
                  h \in {g \in BidLogs(n - 1) : Len(g) = n - 1}, bt \in BidTypes}

InitLog ==
    /\ phase = "bidding"
    /\ is_ready = [p \in Seats |-> TRUE]
    /\ hand = [p \in Seats |-> {}]
    /\ tricks_won = [p \in Seats |-> {}]
    /\ discard_pile = [p \in Seats |-> {}]
    /\ deck = <<>>
    /\ talon = <<>>
    /\ dealer_position = 0
    /\ current_turn = 0
    /\ bid_history \in BidLogs(MaxLogLen)
    /\ declarer_position = NoPos
    /\ winning_bid = NoBid
    /\ is_declarer = [p \in Seats |-> FALSE]
    /\ called_card_rank = ""
    /\ partner_position = NoPos
    /\ partner_revealed = FALSE
    /\ is_partner = [p \in Seats |-> FALSE]
    /\ player_partner_revealed = [p \in Seats |-> FALSE]
    /\ current_trick = <<>>
    /\ trick_leader = NoPos
    /\ trick_number = 0
    /\ previous_trick_winner = NoPos
    /\ players_who_discarded = <<>>
    /\ announcements = <<>>
    /\ announcement_history = <<>>
    /\ trick_history = <<>>
    /\ suspended = {}
    /\ reply = ""
    /\ phase_log = <<"bidding">>

AuctionComplete ==
    /\ reply = ""
    /\ reply' = IF is_auction_complete(bid_history) THEN "complete" ELSE "not complete"
    /\ UNCHANGED <<gsVars, phase_log, trick_history, suspended>>

NextLog == AuctionComplete

SpecLog == InitLog /\ [][NextLog]_vars


(***************************************************************************)
(* GameState._determine_trick_winner is a function of the four plays of    *)
(* the trick and of the lead suit.  SpecTrick applies it, as complete_trick *)
(* does, to every trick of four cards of TrickDeck played by the four seats *)
(* in turn from any leader; previous_trick_winner receives what it returns. *)
(***************************************************************************)
TrickCardList == <<1, 2, 3, 4, 22, 23, 27, 33, 24, 38>>

TrickDeck == {TrickCardList[i] : i \in 1..MaxTrickDeck}

FullTricks ==
    {[i \in 1..NumPlayers |-> <<(leader + i - 1) % NumPlayers, cs[i]>>] :
        leader \in Seats,
        cs \in {x \in [1..NumPlayers -> TrickDeck] :
                   \A i, j \in 1..NumPlayers : i # j => x[i] # x[j]}}

InitTrick ==
    /\ phase = "playing"
    /\ is_ready = [p \in Seats |-> TRUE]
    /\ hand = [p \in Seats |-> {}]
    /\ tricks_won = [p \in Seats |-> {}]
    /\ discard_pile = [p \in Seats |-> {}]
    /\ deck = <<>>
    /\ talon = <<>>
    /\ dealer_position = 0
    /\ current_trick \in FullTricks
    /\ current_turn = current_trick[NumPlayers][1]
    /\ bid_history = <<>>
    /\ declarer_position = NoPos
    /\ winning_bid = NoBid
    /\ is_declarer = [p \in Seats |-> FALSE]
    /\ called_card_rank = ""
    /\ partner_position = NoPos
    /\ partner_revealed = FALSE
    /\ is_partner = [p \in Seats |-> FALSE]
    /\ player_partner_revealed = [p \in Seats |-> FALSE]
    /\ trick_leader = current_trick[1][1]
    /\ trick_number = 1
    /\ previous_trick_winner = NoPos
    /\ players_who_discarded = <<>>
    /\ announcements = <<>>
    /\ announcement_history = <<>>
    /\ trick_history = <<>>
    /\ suspended = {}
    /\ reply = ""
    /\ phase_log = <<"playing">>

\* complete_trick, lines 401-405: the lead suit and the winner
TrickWinner ==
    /\ reply = ""
    /\ previous_trick_winner' =
          determine_trick_winner(current_trick, Suit(current_trick[1][2]))
    /\ reply' = "OK"
    /\ UNCHANGED <<suspended, trick_history, phase, is_ready, cardVars, dealer_position, current_turn, bidVars,
                   partnerVars, current_trick, trick_leader, trick_number,
                   players_who_discarded, annVars, phase_log>>

NextTrick == TrickWinner

SpecTrick == InitTrick /\ [][NextTrick]_vars

(***************************************************************************)
(* calculate_final_score is a function of the players' tricks_won and      *)
(* discard_pile, of the declarer, the partner, the winning bid, the         *)
(* announcements and a trick history.  SpecScore applies it to completed   *)
(* hands of a Three of seat 0: the nine tricks of ScoreTricks, each won by  *)
(* the seat that played its first card, in two orders, with every partner   *)
(* of ScorePartners and every ledger of at most MaxScoreLedger entries;    *)
(* reply receives whether the call returns.                                *)
(***************************************************************************)
ScoreTricks == << <<1, 2, 5, 6>>, <<3, 27, 32, 37>>, <<23, 28, 24, 25>>,
                  <<33, 38, 34, 35>>, <<4, 7, 8, 9>>, <<10, 11, 12, 13>>,
                  <<14, 15, 16, 26>>, <<29, 30, 31, 36>>, <<39, 40, 41, 42>> >>

ScoreDiscards == [p \in Seats |-> IF p = 0 THEN {20, 21, 22} ELSE {16 + p}]

ScoreWinners == {0, 1}

ScorePartners == {0, 1, 2}

\* the winners of the nine tricks: of the tricks of the skiz, of the pagat
\* and of the Kings one each, of the five others one
ScoreOutcomes ==
    {<<s1, s2, s3, s4, r, r, r, r, r>> :
        s1 \in ScoreWinners, s2 \in ScoreWinners, s3 \in ScoreWinners,
        s4 \in ScoreWinners, r \in ScoreWinners}

\* the plays of trick k won by seat w: w leads the first card, the next
\* seats follow with the next cards
ScorePlays(k, w) ==
    [i \in 1..NumPlayers |-> <<(w + i - 1) % NumPlayers, ScoreTricks[k][i]>>]

\* the order of the tricks: the trick of the pagat is the ninth or the second
ScoreOrder(pagat_last) ==
    IF pagat_last THEN <<1, 3, 4, 5, 6, 7, 8, 9, 2>> ELSE <<1, 2, 3, 4, 5, 6, 7, 8, 9>>

ScoreHistory(o, pagat_last) ==
    [k \in 1..NumTricks |->
        [winner |-> o[ScoreOrder(pagat_last)[k]],
         cards |-> ScorePlays(ScoreOrder(pagat_last)[k], o[ScoreOrder(pagat_last)[k]])]]

\* the entries a ledger may hold after the hand of outcome o: pagat_ultimo
\* from the seat that held the pagat, xxi_catch from the seat that held the
\* skiz, the other kinds from seats 0 and 1
ScoreEntries(o) ==
    {Announcement(q, t, TRUE) : q \in ScoreWinners,
                                t \in {"trull", "four_kings", "double_game", "volat"}}
    \cup {Announcement(q, t, FALSE) : q \in ScoreWinners,
                                      t \in {"trull", "double_game", "volat"}}
    \cup {Announcement(o[1], "xxi_catch", TRUE), Announcement(o[2], "pagat_ultimo", TRUE)}

RECURSIVE ScoreLedgers(_, _)
ScoreLedgers(o, n) ==
    IF n = 0 THEN {<<>>}
    ELSE ScoreLedgers(o, n - 1)
         \cup {Append(l, e) : l \in {g \in ScoreLedgers(o, n - 1) : Len(g) = n - 1},
                              e \in ScoreEntries(o)}

InitScore ==
    \E o \in ScoreOutcomes, pagat_last \in BOOLEAN :
       /\ phase = "game_end"
       /\ is_ready = [p \in Seats |-> TRUE]
       /\ hand = [p \in Seats |-> {}]
       /\ tricks_won = [p \in Seats |->
                           UNION {Range(ScoreTricks[k]) : k \in {j \in 1..NumTricks : o[j] = p}}]
       /\ discard_pile = ScoreDiscards
       /\ deck = <<>>
       /\ talon = <<>>
       /\ dealer_position = 0
       /\ trick_history = ScoreHistory(o, pagat_last)
       /\ suspended = {}
       /\ current_turn = trick_history[NumTricks - 1].winner
       /\ bid_history = <<Bid(1, "pass"), Bid(2, "pass"), Bid(3, "pass"), Bid(0, "three"),
                          Bid(1, "pass"), Bid(2, "pass"), Bid(3, "pass")>>
       /\ declarer_position = 0
       /\ winning_bid = Bid(0, "three")
       /\ is_declarer = [p \in Seats |-> p = 0]
       /\ partner_position \in ScorePartners
       \* the called card is the one the partner played to the fifth trick
       /\ called_card_rank =
             Rank(ScoreTricks[5][((partner_position - o[5] + NumPlayers) % NumPlayers) + 1])
       /\ partner_revealed = TRUE
       /\ is_partner = [p \in Seats |-> p = partner_position]
       /\ player_partner_revealed = [p \in Seats |-> p = partner_position]
       /\ current_trick = <<>>
       /\ trick_leader = trick_history[NumTricks - 1].winner
       /\ trick_number = NumTricks + 1
       /\ previous_trick_winner = trick_history[NumTricks].winner
       /\ players_who_discarded = <<1, 2, 3, 0>>
       /\ announcements \in ScoreLedgers(o, MaxScoreLedger)
       /\ announcement_history = announcements \o <<PassEntry, PassEntry, PassEntry>>
       /\ reply = ""
       /\ phase_log = <<"playing", "scoring", "game_end">>

\* the call of calculate_final_score for the hand
Settle ==
    /\ reply = ""
    /\ reply' = IF FinalScore.raised
                THEN "'Announcement' object has no attribute 'contra'" ELSE "OK"
    /\ UNCHANGED <<gsVars, phase_log, trick_history, suspended>>

NextScore == Settle

SpecScore == InitScore /\ [][NextScore]_vars

(***************************************************************************)
(* The handlers with their awaits.  A handler runs until it awaits an      *)
(* emit or a sleep; there the event loop may run the handler of another    *)
(* message.  suspended holds the handlers that wait: the handler, the seat *)
(* of its caller, the await it is at, and the number of the step that      *)
(* suspended it.  ready waits at broadcast_room_state, place_bid at the    *)
(* bid broadcast and at the sleep before the redeal, discard_cards at the  *)
(* discard broadcast; the emits that follow the last change of state are   *)
(* not steps.                                                              *)
(***************************************************************************)
Suspend(h, p, a) ==
    suspended' = suspended \cup {[handler |-> h, seat |-> p, at |-> a,
                                  entry |-> Cardinality(suspended)]}

\* ready up to await broadcast_room_state
ReadyBegin(p) ==
    /\ Cardinality(suspended) < MaxSuspended
    /\ is_ready' = [is_ready EXCEPT ![p] = TRUE]
    /\ reply' = "OK"
    /\ phase_log' = <<phase>>
    /\ Suspend("ready", p, "room_broadcast")
    /\ UNCHANGED <<trick_history, phase, cardVars, dealer_position, current_turn, bidVars,
                   partnerVars, trickVars, players_who_discarded, annVars>>

\* ready after the broadcast: can_start_game and start_game
ReadyAfterBroadcast(c) ==
    /\ c.handler = "ready"
    /\ suspended' = suspended \ {c}
    /\ reply' = "OK"
    /\ IF can_start_game(is_ready)
       THEN /\ \E d \in Shuffles : StartDealingAndBidding(d)
            /\ UNCHANGED <<trick_history, is_ready, dealer_position, declarer_position,
                           winning_bid, called_card_rank, partner_position, partner_revealed,
                           trickVars, players_who_discarded, annVars>>
       ELSE /\ phase_log' = <<phase>>
            /\ UNCHANGED <<trick_history, gsVars>>

\* place_bid up to the bid broadcast: the tests and GameState.place_bid
PlaceBidBegin(p, bt) ==
    IF phase # "bidding" THEN Reject("Not in bidding phase")
    ELSE IF not_your_turn(p) THEN Reject("Not your turn")
    ELSE IF can_player_bid(p, bt, bid_history) # "OK"
    THEN Reject(can_player_bid(p, bt, bid_history))
    ELSE IF place_bid_error(p, bt, bid_history) # "OK"
    THEN Reject(place_bid_error(p, bt, bid_history))
    ELSE
      LET h == Append(bid_history, stored_bid(p, bt, bid_history))
          wb == get_highest_bid(h)
      IN /\ Cardinality(suspended) < MaxSuspended
         /\ reply' = "OK"
         /\ phase_log' = <<phase>>
         /\ bid_history' = h
         /\ Suspend("place_bid", p, "bid_broadcast")
         /\ IF bt = "solo"
            THEN \* end_bidding
                 /\ winning_bid' = wb
                 /\ declarer_position' = wb.player_position
                 /\ is_declarer' = [is_declarer EXCEPT ![wb.player_position] = TRUE]
                 /\ UNCHANGED current_turn
            ELSE /\ current_turn' = next_position(current_turn)
                 /\ UNCHANGED <<winning_bid, declarer_position, is_declarer>>
         /\ UNCHANGED <<trick_history, phase, is_ready, cardVars, dealer_position, partnerVars,
                        trickVars, players_who_discarded, annVars>>

\* place_bid after the bid broadcast: is_bidding_complete, end_bidding and
\* handle_talon_distribution, or the message before the redeal
PlaceBidAfterBroadcast(c) ==
    LET wb == get_highest_bid(bid_history)
    IN /\ c.handler = "place_bid" /\ c.at = "bid_broadcast"
       /\ reply' = "OK"
       /\ UNCHANGED <<trick_history, is_ready, dealer_position, bid_history, partnerVars,
                      trickVars, annVars, tricks_won, discard_pile, deck>>
       /\ IF ~is_bidding_complete(bid_history)
          THEN /\ suspended' = suspended \ {c}
               /\ phase_log' = <<phase>>
               /\ UNCHANGED <<phase, hand, talon, current_turn, declarer_position,
                              winning_bid, is_declarer, players_who_discarded>>
          ELSE IF wb # NoBid
          THEN /\ suspended' = suspended \ {c}
               /\ winning_bid' = wb
               /\ declarer_position' = wb.player_position
               /\ is_declarer' = [is_declarer EXCEPT ![wb.player_position] = TRUE]
               /\ hand' = [q \in Seats |->
                             hand[q] \cup TalonShare(talon, wb.player_position,
                                                     wb.talon_cards, q)]
               /\ talon' = <<>>
               /\ phase' = "discarding"
               /\ phase_log' = <<phase, "talon_distribution", "discarding">>
               /\ players_who_discarded' = <<>>
               /\ current_turn' = dealer_right_position
          ELSE /\ suspended' = (suspended \ {c}) \cup {[c EXCEPT !.at = "redeal_delay"]}
               /\ winning_bid' = NoBid
               /\ phase_log' = <<phase>>
               /\ UNCHANGED <<phase, hand, talon, current_turn, declarer_position,
                              is_declarer, players_who_discarded>>

\* place_bid after asyncio.sleep(2): start_dealing and start_bidding
PlaceBidAfterDelay(c) ==
    /\ c.handler = "place_bid" /\ c.at = "redeal_delay"
    /\ suspended' = suspended \ {c}
    /\ reply' = "OK"
    /\ \E d \in Shuffles : StartDealingAndBidding(d)
    /\ UNCHANGED <<trick_history, is_ready, dealer_position, declarer_position, winning_bid,
                   called_card_rank, partner_position, partner_revealed, trickVars,
                   players_who_discarded, annVars>>

\* discard_cards up to the discard broadcast
DiscardCardsBegin(p, card_ids) ==
    IF phase # "discarding" THEN Reject("Not in discarding phase")
    ELSE IF not_your_turn(p) THEN Reject("Not your turn")
    ELSE IF Len(card_ids) # num_to_discard(hand[p])
    THEN Reject("Must discard exactly n cards")
    ELSE IF validate_discard(hand[p] \cap Range(card_ids)) # "OK"
    THEN Reject(validate_discard(hand[p] \cap Range(card_ids)))
    ELSE IF discard_lookup_error(hand[p], card_ids) # "OK"
    THEN Reject(discard_lookup_error(hand[p], card_ids))
    ELSE
      /\ Cardinality(suspended) < MaxSuspended
      /\ hand' = [hand EXCEPT ![p] = @ \ MovedCards(card_ids)]
      /\ discard_pile' = [discard_pile EXCEPT ![p] = @ \cup MovedCards(card_ids)]
      /\ phase_log' = <<phase>>
      /\ UNCHANGED <<trick_history, phase, current_turn, is_ready, tricks_won, deck, talon,
                     dealer_position, bidVars, partnerVars, trickVars, annVars>>
      /\ IF FirstRepeat(card_ids) # 0
         THEN /\ reply' = "list.remove(x): x not in list"
              /\ UNCHANGED <<suspended, players_who_discarded>>
         ELSE /\ reply' = "OK"
              /\ players_who_discarded' = Append(players_who_discarded, p)
              /\ Suspend("discard_cards", p, "discard_broadcast")

\* discard_cards after the broadcast: can_end_discard_phase and
\* handle_partner_call_phase, or the turn to the next seat
DiscardCardsAfterBroadcast(c) ==
    /\ c.handler = "discard_cards"
    /\ suspended' = suspended \ {c}
    /\ reply' = "OK"
    /\ UNCHANGED <<trick_history, is_ready, cardVars, dealer_position, bidVars, partnerVars,
                   trickVars, players_who_discarded, annVars>>
    /\ IF can_end_discard_phase(players_who_discarded)
       THEN /\ phase' = "partner_call"
            /\ phase_log' = <<phase, "partner_call">>
            /\ UNCHANGED current_turn
       ELSE /\ current_turn' = next_position(current_turn)
            /\ phase_log' = <<phase>>
            /\ UNCHANGED phase

\* the ready handlers of the four players
NextReadyAwait ==
    \/ \E p \in Seats : ReadyBegin(p)
    \/ \E c \in suspended : ReadyAfterBroadcast(c)

SpecReadyAwait == Init /\ [][NextReadyAwait]_vars

\* the auction with the awaits of place_bid
NextBidAwait ==
    \/ \E p \in Seats : Ready(p)
    \/ \E p \in Seats, bt \in HandBidTypes : Len(bid_history) < MaxBids /\ PlaceBidBegin(p, bt)
    \/ \E c \in suspended : PlaceBidAfterBroadcast(c)
    \/ \E c \in suspended : PlaceBidAfterDelay(c)

SpecBidAwait == Init /\ [][NextBidAwait]_vars

\* the hand up to the partner call with the awaits of discard_cards
NextDiscardAwait ==
    \/ \E p \in Seats : Ready(p)
    \/ \E p \in Seats, bt \in HandBidTypes : Len(bid_history) < MaxBids /\ PlaceBid(p, bt)
    \/ \E p \in Seats :
          /\ Len(players_who_discarded) < MaxDiscarded
          /\ DiscardCardsBegin(p, Lowest({c \in hand[p] : can_be_discarded(c)},
                                         num_to_discard(hand[p])))
    \/ \E c \in suspended : DiscardCardsAfterBroadcast(c)

SpecDiscardAwait == Init /\ [][NextDiscardAwait]_vars

(***************************************************************************)
(* The deck on its own: a freshly shuffled deck, calls of Deck.deal with   *)
(* any count (the cards going to the talon, as in start_dealing's first    *)
(* call), and start_dealing.                                               *)
(***************************************************************************)
DealSizes == 0..(DeckSize + 1)

InitDeck ==
    /\ phase = "dealing"
    /\ is_ready = [p \in Seats |-> TRUE]
    /\ hand = [p \in Seats |-> {}]
    /\ tricks_won = [p \in Seats |-> {}]
    /\ discard_pile = [p \in Seats |-> {}]
    /\ deck \in Shuffles
    /\ talon = <<>>
    /\ dealer_position = 0
    /\ current_turn = 0
    /\ bid_history = <<>>
    /\ declarer_position = NoPos
    /\ winning_bid = NoBid
    /\ is_declarer = [p \in Seats |-> FALSE]
    /\ called_card_rank = ""
    /\ partner_position = NoPos
    /\ partner_revealed = FALSE
    /\ is_partner = [p \in Seats |-> FALSE]
    /\ player_partner_revealed = [p \in Seats |-> FALSE]
    /\ current_trick = <<>>
    /\ trick_leader = NoPos
    /\ trick_number = 0
    /\ previous_trick_winner = NoPos
    /\ players_who_discarded = <<>>
    /\ announcements = <<>>
    /\ announcement_history = <<>>
    /\ trick_history = <<>>
    /\ suspended = {}
    /\ reply = ""
    /\ phase_log = <<"waiting", "dealing">>

\* self.talon = self.deck.deal(n)
DeckDeal(n) ==
    LET r == deal(deck, n)
    IN /\ reply' = IF r.raised THEN "Not enough cards in deck" ELSE "OK"
       /\ deck' = r.cards
       /\ talon' = IF r.raised THEN talon ELSE r.dealt
       /\ phase_log' = <<phase>>
       /\ UNCHANGED <<suspended, trick_history, phase, is_ready, hand, tricks_won, discard_pile,
                      dealer_position, current_turn, bidVars, partnerVars, trickVars,
                      players_who_discarded, annVars>>

\* GameState.start_dealing with deck order d
StartDealing ==
    \E d \in Shuffles :
       /\ phase' = "dealing"
       /\ phase_log' = <<phase, "dealing">>
       /\ reply' = "OK"
       /\ deck' = DealtDeck(d)
       /\ talon' = DealtTalon(d)
       /\ hand' = DealtHands(d)
       /\ tricks_won' = [q \in Seats |-> {}]
       /\ discard_pile' = [q \in Seats |-> {}]
       /\ is_declarer' = [q \in Seats |-> FALSE]
       /\ is_partner' = [q \in Seats |-> FALSE]
       /\ player_partner_revealed' = [q \in Seats |-> FALSE]
       /\ UNCHANGED <<suspended, trick_history, is_ready, dealer_position, current_turn,
                      bid_history, declarer_position, winning_bid, called_card_rank,
                      partner_position, partner_revealed, trickVars,
                      players_who_discarded, annVars>>

NextDeck ==
    \/ \E n \in DealSizes : DeckDeal(n)
    \/ StartDealing

SpecDeck == InitDeck /\ [][NextDeck]_vars

(***************************************************************************)
(* Properties of the settlement, of the cards and of the phase.            *)
(***************************************************************************)
\* C1: the settlement is zero-sum: at the end of every hand the scores
\* calculate_final_score returns, each taken from the baseline of 50, add up
\* to 0 over the four seats.
C1_SettlementZeroSum ==
    (phase = "game_end" /\ ~FinalScore.raised)
        => SumSeats([i \in Seats |-> FinalScore.player_scores[i] - StartScore]) = 0

\* the number of places that hold card c
Places(c) ==
    Cardinality({i \in 1..Len(deck) : deck[i] = c})
    + Cardinality({i \in 1..Len(talon) : talon[i] = c})
    + Cardinality({i \in 1..Len(current_trick) : current_trick[i][2] = c})
    + Cardinality({p \in Seats : c \in hand[p]})
    + Cardinality({p \in Seats : c \in tricks_won[p]})
    + Cardinality({p \in Seats : c \in discard_pile[p]})

\* C2: card conservation: from the deal on, each of the 42 cards is in
\* exactly one place: the deck, the talon, one hand, the current trick, one
\* seat's tricks_won or one seat's discard_pile.
C2_CardConservation == phase # "waiting" => \A c \in Cards : Places(c) = 1

C2_Witness ==
    /\ phase = "playing"
    /\ Len(current_trick) = 2
    /\ \E p \in Seats : tricks_won[p] # {}
    /\ \A p \in Seats : discard_pile[p] # {}

PhaseIndex(ph) == CHOOSE i \in 1..Len(PhaseOrder) : PhaseOrder[i] = ph

\* one assignment to phase is forced: the next phase of the order, or
\* dealing after a bidding in which every seat passed
ForcedStep(from, to, all_passed) ==
    \/ PhaseIndex(to) = PhaseIndex(from) + 1
    \/ from = "bidding" /\ to = "dealing" /\ all_passed

Rejected == reply' \notin {"OK", ""} /\ UNCHANGED gsVars

\* the step is a command of seat p that needs the phase required, sent in
\* another phase or while p is not the seat to act
Misplaced(required, p, cmd) == (phase # required \/ p # current_turn) /\ cmd

MisplacedCommand(p) ==
    \/ Misplaced("bidding", p, \E bt \in BidTypes : PlaceBid(p, bt))
    \/ Misplaced("discarding", p, \E ids \in DiscardInputs(p) : DiscardCards(p, ids))
    \/ Misplaced("announcements", p,
                 \E ts \in AnnounceInputs : MakeAnnouncement(p, ts, TRUE))
    \/ Misplaced("announcements", p, PassAnnouncement(p))
    \/ Misplaced("announcements", p,
                 \E t \in AnnouncementTypes : ContraAnnouncement(p, t))
    \/ Misplaced("announcements", p,
                 \E t \in AnnouncementTypes : RecontraAnnouncement(p, t))
    \/ Misplaced("playing", p, \E c \in PlayInputs(p) : PlayCard(p, c))

\* C4: a placeBid, discard, announce, pass, contra, recontra or playCard
\* command issued outside its phase, or by a seat other than current_turn,
\* is answered with an error and leaves every field of the GameState as it
\* was: every step that is such a command is a rejection.
C4_MisplacedCommandRejected ==
    [][Rejected \/ \A p \in Seats : ~MisplacedCommand(p)]_vars

\* a seat that is not to act has been refused while cards are being discarded
C4_Witness ==
    /\ phase = "discarding"
    /\ reply = "Not your turn"
    /\ players_who_discarded # <<>>

\* C5: a discard that fails (wrong count, a King or an honour among the
\* cards, an id that is not in the hand, an id listed twice) has no partial
\* effect: hands, discard piles, players_who_discarded, current_turn and
\* phase are as before the command.
C5_RejectedDiscardNoEffect ==
    [][\A p \in Seats : \A ids \in DiscardInputs(p) :
          (DiscardCards(p, ids) /\ reply' # "OK")
              => UNCHANGED <<hand, discard_pile, players_who_discarded,
                             current_turn, phase>>]_vars

\* C6: callPartner with a trump rank that no seat holds in hand fails and
\* leaves called_card_rank, partner_position, every is_partner flag and the
\* phase as they were.
C6_FailedCallNoEffect ==
    [][\A p \in Seats : \A r \in CallRanks :
          (CallPartner(p, r) /\ HoldersOf(r) = {})
              => /\ reply' # "OK"
                 /\ UNCHANGED <<called_card_rank, partner_position, is_partner,
                                phase>>]_vars

(***************************************************************************)
(* Properties of the auction.                                              *)
(***************************************************************************)
RegularBids == {"three", "two", "one", "solo"}

\* bid log h has grown by the entry e
Appended(h, e) == bid_history' = Append(h, e)

\* the greatest game_value of the entries of h that are not a pass, or 0
HighestValue(h) ==
    IF AllPass(h) THEN 0
    ELSE CHOOSE v \in {h[i].game_value : i \in 1..Len(h)} :
            /\ \E i \in 1..Len(h) : h[i].bid_type # "pass" /\ h[i].game_value = v
            /\ \A i \in 1..Len(h) : h[i].bid_type # "pass" => h[i].game_value <= v

\* C7: bid legality: a Three, Two, One or Solo enters the log only from a
\* seat that holds an honour and with a game_value strictly greater than
\* that of every earlier entry that is not a pass; one that is not strictly
\* higher, or from a seat without an honour, is rejected and the log is
\* unchanged; a pass of the seat to act is always accepted.
C7_BidLegality ==
    [][\A p \in Seats :
        /\ \A bt \in RegularBids :
              PlaceBid(p, bt) =>
                 IF has_honour(hand[p]) /\ GameValue(bt) > HighestValue(bid_history)
                 THEN reply' = "OK" => Appended(bid_history, Bid(p, bt))
                 ELSE reply' \notin {"OK", ""} /\ UNCHANGED bid_history
        /\ (PlaceBid(p, "pass") /\ phase = "bidding" /\ p = current_turn)
              => /\ reply' = "OK"
                 /\ \/ Appended(bid_history, Bid(p, "pass"))
                    \/ phase' = "bidding" /\ bid_history' = <<>>
      ]_vars

C7_Witness ==
    /\ reply = "Bid must be higher than current highest bid"
    /\ \E i \in 1..Len(bid_history) : \E j \in (i + 1)..Len(bid_history) :
          bid_history[i].bid_type = "three" /\ bid_history[j].bid_type = "two"

\* C8: a Hold is accepted only from a seat with an earlier Three, Two, One
\* or Solo of its own in the log; the entry stored carries the game_value
\* and the talon_cards of the highest bid at that moment, and the highest
\* game_value of the log stays what it was.
C8_Hold ==
    [][\A p \in Seats :
          (PlaceBid(p, "hold") /\ reply' = "OK")
             => /\ \E i \in 1..Len(bid_history) :
                      /\ bid_history[i].player_position = p
                      /\ bid_history[i].bid_type \in RegularBids
                /\ Appended(bid_history,
                            [player_position |-> p, bid_type |-> "hold",
                             game_value |-> get_highest_bid(bid_history).game_value,
                             talon_cards |-> get_highest_bid(bid_history).talon_cards])
                /\ HighestValue(bid_history') = HighestValue(bid_history)
                /\ HighestValue(bid_history) > 0
      ]_vars

C8_Witness ==
    /\ reply = "OK"
    /\ bid_history # <<>>
    /\ bid_history[Len(bid_history)].bid_type = "hold"
    /\ bid_history[Len(bid_history)].game_value = 2
    /\ bid_history[Len(bid_history)].talon_cards = 2

\* the three ways in which an auction is over
SoloBid(h) == \E i \in 1..Len(h) : h[i].bid_type = "solo"

ThrownIn(h) == Len(h) >= 4 /\ AllPass(h)

ThreePassesAfterBid(h) ==
    /\ Len(h) >= 4
    /\ AllPass(SubSeq(h, Len(h) - 2, Len(h)))
    /\ ~AllPass(SubSeq(h, 1, Len(h) - 3))

\* C9: is_auction_complete(log) is true exactly when the log has a Solo, or
\* has at least 4 entries that are all passes, or has at least 4 entries of
\* which the last 3 are passes and an earlier one is not; it is false for
\* every other log.
C9_AuctionComplete ==
    reply # "" =>
        (reply = "complete"
            <=> (SoloBid(bid_history) \/ ThrownIn(bid_history)
                    \/ ThreePassesAfterBid(bid_history)))

C9_Witness ==
    /\ reply = "complete"
    /\ ThreePassesAfterBid(bid_history)
    /\ ~SoloBid(bid_history)
    /\ Len(bid_history) = 5

\* the seat of the last entry of h that is not a pass
LastBidder(h) ==
    h[CHOOSE i \in 1..Len(h) :
         h[i].bid_type # "pass" /\ \A j \in (i + 1)..Len(h) : h[j].bid_type = "pass"
     ].player_position

\* C10: when the auction ends with an entry that is not a pass, the declarer
\* is the seat of the highest bid, and after three closing passes that seat
\* is the last seat that bid or held: the last bidder wins.  While no entry
\* other than a pass exists there is no declarer and no winning bid.
C10_Declarer ==
    /\ phase = "discarding" =>
          /\ winning_bid.game_value = HighestValue(bid_history)
          /\ declarer_position = winning_bid.player_position
          /\ ThreePassesAfterBid(bid_history)
                => declarer_position = LastBidder(bid_history)
    /\ (phase = "bidding" /\ AllPass(bid_history)) =>
          declarer_position = NoPos /\ winning_bid = NoBid

(***************************************************************************)
(* Properties of the talon, of the discards and of the partner.            *)
(***************************************************************************)
\* the number of cards seat q receives in the step
Received(q) == Cardinality(hand'[q]) - Cardinality(hand[q])

\* C11: the step that distributes the talon empties it, leaves the declarer
\* with 9 cards plus the talon cards of the winning bid (Three 3, Two 2,
\* One 1, Solo 0), gives the other three seats the remaining cards of the
\* talon, and gives no two of them numbers that differ by more than 1.
C11_TalonDistribution ==
    [][(phase = "bidding" /\ phase' = "discarding") =>
         LET d == declarer_position'
             n == TalonCards(winning_bid'.bid_type)
         IN /\ winning_bid'.bid_type \in RegularBids
            /\ talon' = <<>>
            /\ Cardinality(hand'[d]) = HandSize + n
            /\ SumSeats([q \in Seats |-> IF q = d THEN 0 ELSE Received(q)]) = TalonSize - n
            /\ \A q \in Seats : hand[q] \subseteq hand'[q]
            /\ UNION {hand'[q] \ hand[q] : q \in Seats} = Range(talon)
            /\ \A q, r \in Seats \ {d} : Received(q) - Received(r) <= 1
      ]_vars

C11_Witness ==
    /\ phase = "discarding"
    /\ winning_bid.bid_type = "one"
    /\ talon = <<>>
    /\ \E q, r \in Seats : Cardinality(hand[q]) = HandSize + 2
                           /\ Cardinality(hand[r]) = HandSize + 1 /\ r # declarer_position

\* C12: when the discarding ends and the partner is to be called, every
\* seat holds exactly 9 cards, the four discard piles hold 6 cards together,
\* and no discard pile holds a King or an honour.
C12_AfterDiscarding ==
    phase = "partner_call" =>
        /\ \A p \in Seats : Cardinality(hand[p]) = HandSize
        /\ SumSeats([p \in Seats |-> Cardinality(discard_pile[p])]) = TalonSize
        /\ \A p \in Seats : \A c \in discard_pile[p] : ~is_king(c) /\ ~is_honour(c)

\* the discarding has ended after a Two: one seat has discarded two cards
C12_Witness ==
    /\ phase = "partner_call"
    /\ players_who_discarded = <<1, 2, 3, 0>>
    /\ winning_bid.bid_type = "two"
    /\ \E p \in Seats : Cardinality(discard_pile[p]) = 2

\* C13: after a successful callPartner(rank) of the declarer,
\* partner_position is the seat whose hand holds the trump of that rank,
\* that seat and no other has is_partner set, partner_revealed is false and
\* the phase is announcements.
C13_PartnerCalled ==
    [][\A p \in Seats : \A r \in CallRanks :
          (CallPartner(p, r) /\ reply' = "OK")
             => /\ p = declarer_position
                /\ called_card_rank' = r
                /\ partner_position' \in Seats
                /\ \E c \in hand[partner_position'] : is_tarokk(c) /\ Rank(c) = r
                /\ is_partner' = [q \in Seats |-> q = partner_position']
                /\ ~partner_revealed'
                /\ phase' = "announcements"
      ]_vars

C13_Witness ==
    /\ phase = "announcements"
    /\ reply = "OK"
    /\ called_card_rank = "II"
    /\ partner_position \in Seats \ {declarer_position}
    /\ is_partner[partner_position]

\* the card the declarer called
CalledCard == CHOOSE c \in Cards : is_tarokk(c) /\ Rank(c) = called_card_rank

InATrick(c) ==
    \/ c \in TrickCards(current_trick)
    \/ \E q \in Seats : c \in tricks_won[q]

\* During the announcements and the play, partner_revealed is true
\* exactly when the called trump has been played into a trick: it is false
\* while the called card is in a hand.
C14_RevealedIffPlayed ==
    phase \in {"announcements", "playing"}
       => /\ partner_revealed <=> InATrick(CalledCard)
          /\ (\E q \in Seats : CalledCard \in hand[q]) => ~partner_revealed
          /\ InATrick(CalledCard) \/ CalledCard \in hand[partner_position]

\* partner_revealed becomes true in the very playCard step that moves
\* the called card from the partner's hand to the trick.
C14_RevealedWhenPlayed ==
    [][\A p \in Seats :
          (phase = "playing" /\ CalledCard \in hand[p] /\ CalledCard \notin hand'[p])
             => /\ p = partner_position
                /\ ~partner_revealed
                /\ partner_revealed'
                /\ player_partner_revealed'[p]
      ]_vars

\* C14: during the announcements and the play, partner_revealed is true
\* exactly when the called trump has been played into a trick, it is false
\* while the called card is in a hand, and it becomes true in the playCard
\* step that moves the called card from the partner's hand to the trick.
C14_PartnerRevealed == []C14_RevealedIffPlayed /\ C14_RevealedWhenPlayed

C14_Witness ==
    /\ phase = "playing"
    /\ partner_revealed
    /\ \E i \in 1..Len(current_trick) :
          current_trick[i] = <<partner_position, CalledCard>>

C14_WitnessHidden ==
    /\ phase = "playing"
    /\ trick_number >= 2
    /\ ~partner_revealed
    /\ CalledCard \in hand[partner_position]

(***************************************************************************)
(* The view of an observer: GameState.to_dict and Player.to_dict.  A game  *)
(* state is a record gs of the fields the view reads.  A key that may be   *)
(* absent from a dictionary is a sequence, empty when the key is absent;   *)
(* None is NoPos.  The identifiers and names of the game and of the        *)
(* players are no part of the state modelled here.                         *)
(***************************************************************************)
card_type(c) ==
    IF is_honour(c) THEN "honour"
    ELSE IF is_king(c) THEN "king"
    ELSE IF is_tarokk(c) THEN "tarokk"
    ELSE "suit"

Card_to_dict(c) ==
    [id |-> c, suit |-> Suit(c), rank |-> Rank(c), points |-> Points(c),
     card_type |-> card_type(c)]

Bid_to_dict(b) == b

Announcement_to_dict(a) ==
    [player_position |-> a.player_position,
     announcement_type |-> a.announcement_type,
     announced |-> a.announced,
     points |-> get_points(a),
     multiplier |-> get_multiplier(a)]

get_total_points(gs, q) == SumPoints(gs.tricks_won[q]) + SumPoints(gs.discard_pile[q])

\* a variant of hide_hand that hides no hand
hide_hand_never(player_pos, q) == FALSE

\* the hide_hand argument GameState.to_dict passes for the player at q
hide_hand(player_pos, q) == player_pos # NoPos /\ q # player_pos

Player_to_dict(gs, q, hide) ==
    [position |-> q,
     hand_size |-> Cardinality(gs.hand[q]),
     is_ready |-> gs.is_ready[q],
     is_declarer |-> gs.is_declarer[q],
     total_points |-> get_total_points(gs, q),
     tricks_won_count |-> Cardinality(gs.tricks_won[q]) \div NumPlayers,
     is_partner |-> IF gs.player_partner_revealed[q]
                    THEN <<gs.is_partner[q]>> ELSE <<>>,
     hand |-> IF hide THEN <<>> ELSE <<{Card_to_dict(c) : c \in gs.hand[q]}>>,
     tricks_won |-> IF hide THEN <<>>
                    ELSE <<{Card_to_dict(c) : c \in gs.tricks_won[q]}>>,
     discard_pile |-> IF hide THEN <<>>
                      ELSE <<{Card_to_dict(c) : c \in gs.discard_pile[q]}>>,
     partner_revealed |-> IF hide THEN <<>> ELSE <<gs.player_partner_revealed[q]>>]

GameState_to_dict(gs, player_pos) ==
    [phase |-> gs.phase,
     players |-> [q \in Seats |-> Player_to_dict(gs, q, hide_hand(player_pos, q))],
     dealer_position |-> gs.dealer_position,
     current_turn |-> gs.current_turn,
     bid_history |-> [i \in 1..Len(gs.bid_history) |-> Bid_to_dict(gs.bid_history[i])],
     declarer_position |-> gs.declarer_position,
     partner_position |-> IF gs.partner_revealed THEN gs.partner_position ELSE NoPos,
     partner_revealed |-> gs.partner_revealed,
     trick_number |-> gs.trick_number,
     current_trick |-> [i \in 1..Len(gs.current_trick) |->
                           [player |-> gs.current_trick[i][1],
                            card |-> Card_to_dict(gs.current_trick[i][2])]],
     talon |-> [i \in 1..Len(gs.talon) |-> Card_to_dict(gs.talon[i])],
     announcements |-> [i \in 1..Len(gs.announcements) |->
                           Announcement_to_dict(gs.announcements[i])]]

\* the game state the server holds
GameState ==
    [phase |-> phase, hand |-> hand, tricks_won |-> tricks_won,
     discard_pile |-> discard_pile, is_ready |-> is_ready,
     is_declarer |-> is_declarer, is_partner |-> is_partner,
     player_partner_revealed |-> player_partner_revealed,
     dealer_position |-> dealer_position, current_turn |-> current_turn,
     bid_history |-> bid_history, declarer_position |-> declarer_position,
     partner_position |-> partner_position, partner_revealed |-> partner_revealed,
     trick_number |-> trick_number, current_trick |-> current_trick,
     talon |-> talon, announcements |-> announcements]

\* Card.from_dict: the card with the fields of d
Card_from_dict(d) == CHOOSE c \in Cards : Card_to_dict(c) = d

\* PersistenceManager._reconstruct_game_state on the dictionary d that
\* GameState.to_dict returned.  error: the exception that ends the call: the
\* entries of current_trick are saved under the key player and read under
\* player_position (line 302); contra is no field of Announcement (line
\* 314) and trick_history no field of GameState (line 338).  The other
\* fields: what the code assigns, a key that d lacks giving the default of
\* its get() or the value GameState() starts with.
reconstruct_game_state(d) ==
    [error |-> IF d.current_trick # <<>> THEN "KeyError: 'player_position'"
               ELSE IF d.announcements # <<>>
               THEN "\"Announcement\" object has no field \"contra\""
               ELSE "\"GameState\" object has no field \"trick_history\"",
     phase |-> d.phase,
     dealer_position |-> d.dealer_position,
     current_turn |-> d.current_turn,
     declarer_position |-> d.declarer_position,
     partner_position |-> d.partner_position,
     partner_revealed |-> d.partner_revealed,
     called_card_rank |-> "",
     trick_number |-> d.trick_number,
     trick_leader |-> NoPos,
     previous_trick_winner |-> NoPos,
     players_who_discarded |-> <<>>,
     bid_history |-> [i \in 1..Len(d.bid_history) |->
                         Bid(d.bid_history[i].player_position, d.bid_history[i].bid_type)],
     winning_bid |-> NoBid,
     talon |-> [i \in 1..Len(d.talon) |-> Card_from_dict(d.talon[i])],
     current_trick |-> <<>>,
     announcements |-> [i \in 1..Len(d.announcements) |->
                           Announcement(d.announcements[i].player_position,
                                        d.announcements[i].announcement_type,
                                        d.announcements[i].announced)],
     announcement_history |-> <<>>,
     trick_history |-> <<>>,
     hand |-> [q \in Seats |->
                 IF d.players[q].hand = <<>> THEN {}
                 ELSE {Card_from_dict(c) : c \in d.players[q].hand[1]}],
     tricks_won |-> [q \in Seats |->
                       IF d.players[q].tricks_won = <<>> THEN {}
                       ELSE {Card_from_dict(c) : c \in d.players[q].tricks_won[1]}],
     discard_pile |-> [q \in Seats |->
                         IF d.players[q].discard_pile = <<>> THEN {}
                         ELSE {Card_from_dict(c) : c \in d.players[q].discard_pile[1]}],
     is_ready |-> [q \in Seats |-> d.players[q].is_ready],
     is_declarer |-> [q \in Seats |-> d.players[q].is_declarer],
     is_partner |-> [q \in Seats |->
                       IF d.players[q].is_partner = <<>> THEN FALSE
                       ELSE d.players[q].is_partner[1]],
     player_partner_revealed |-> [q \in Seats |->
                       IF d.players[q].partner_revealed = <<>> THEN FALSE
                       ELSE d.players[q].partner_revealed[1]]]

(***************************************************************************)
(* Properties of the observer's view.                                      *)
(***************************************************************************)
\* the hands that differ from the present ones in the cards of the seats
\* other than the observer only, with the same sizes: two other seats swap a
\* card, or another seat holds a card of the observer's instead of its own
OtherHands(observer) ==
    {[hand EXCEPT ![q] = (@ \ {MinOf(hand[q])}) \cup {MaxOf(hand[r])},
                  ![r] = (@ \ {MaxOf(hand[r])}) \cup {MinOf(hand[q])}] :
            <<q, r>> \in {x \in (Seats \ {observer}) \X (Seats \ {observer}) :
                            x[1] < x[2] /\ hand[x[1]] # {} /\ hand[x[2]] # {}}}
    \cup {[hand EXCEPT ![q] = (@ \ {MaxOf(hand[q])}) \cup {MinOf(hand[observer])}] :
            q \in {x \in Seats \ {observer} : hand[x] # {} /\ hand[observer] # {}}}

\* the partners that differ from the present one while it is not revealed:
\* a pair of a partner_position and of the is_partner flags
OtherPartners ==
    IF partner_revealed THEN {}
    ELSE {<<pp, [q \in Seats |-> q = pp]>> : pp \in Seats \cup {NoPos}}
         \cup {<<NoPos, [q \in Seats |-> TRUE]>>}

\* the partner after the present one, while it is not revealed
NextPartner ==
    IF partner_revealed THEN <<partner_position, is_partner>>
    ELSE LET pp == next_position(IF partner_position = NoPos THEN 0 ELSE partner_position)
         IN <<pp, [q \in Seats |-> q = pp]>>

\* the game states that differ from the present one in the hands of the
\* seats other than the observer, in the partner not yet revealed, or in both
OtherStates(observer) ==
    {[GameState EXCEPT !.hand = h] : h \in OtherHands(observer)}
    \cup {[GameState EXCEPT !.partner_position = pv[1], !.is_partner = pv[2]] :
            pv \in OtherPartners}
    \cup {[GameState EXCEPT !.hand = h, !.partner_position = NextPartner[1],
                            !.is_partner = NextPartner[2]] : h \in OtherHands(observer)}

\* C15: for every observer seat, two game states that differ only in the
\* cards of the other seats' hands (of the same sizes) and in the identity
\* of a partner not yet revealed (partner_position and the is_partner
\* flags) have the same view to_dict(observer).
C15_ObserverNoninterference ==
    \A observer \in Seats :
       LET view == GameState_to_dict(GameState, observer)
       IN \A gs \in OtherStates(observer) : GameState_to_dict(gs, observer) = view

C15_Witness ==
    /\ phase = "playing"
    /\ trick_number >= 2
    /\ ~partner_revealed
    /\ partner_position \in Seats \ {declarer_position}
    /\ \E observer \in Seats \ {partner_position} :
          Cardinality(OtherStates(observer)) > 12

(***************************************************************************)
(* Properties of the announcements.                                        *)
(***************************************************************************)
holds_rank(h, r) == \E c \in h : is_tarokk(c) /\ Rank(c) = r

\* the card an announcement of kind t asks for, "none" when it asks for none
RequiredCard(t) ==
    IF t = "pagat_ultimo" THEN "I" ELSE IF t = "xxi_catch" THEN "skiz" ELSE "none"

\* the entries a step adds to the ledger of announcements
NewEntries ==
    IF Len(announcements') > Len(announcements)
    THEN {announcements'[i] : i \in (Len(announcements) + 1)..Len(announcements')}
    ELSE {}

\* C16: every pagat_ultimo entry of the ledger was added by a seat that
\* held the pagat at that moment and every xxi_catch entry by a seat that
\* held the skiz; an announce of one of them from a seat that does not hold
\* the card is rejected; trull, four_kings, double_game and volat are
\* accepted from any seat whose turn it is.
C16_AnnouncementCards ==
    [][/\ \A e \in NewEntries :
             /\ e.player_position = current_turn
             /\ RequiredCard(e.announcement_type) # "none"
                   => holds_rank(hand[e.player_position],
                                 RequiredCard(e.announcement_type))
       /\ (phase = "announcements" /\ reply' = "OK")
             => \A p \in Seats : \A in \in AllAnnounceInputs :
                   (\E i \in 1..Len(in[1]) :
                       /\ RequiredCard(in[1][i]) # "none"
                       /\ ~holds_rank(hand[p], RequiredCard(in[1][i])))
                      => ~MakeAnnouncement(p, in[1], in[2])
       /\ (phase = "announcements" /\ reply' # "OK")
             => \A in \in AllAnnounceInputs :
                   (\A i \in 1..Len(in[1]) : RequiredCard(in[1][i]) = "none")
                      => ~MakeAnnouncement(current_turn, in[1], in[2])
      ]_vars

C16_Witness ==
    /\ phase = "announcements"
    /\ \E i \in 1..Len(announcements) :
          /\ announcements[i].announcement_type = "pagat_ultimo"
          /\ holds_rank(hand[announcements[i].player_position], "I")
    /\ reply = "Must have skiz to announce XXI catch"

\* a command of the announcements from seat p
AnnouncementCommand(p) ==
    \/ \E ts \in AnnounceInputs : MakeAnnouncement(p, ts, TRUE)
    \/ PassAnnouncement(p)
    \/ \E t \in AnnouncementTypes : ContraAnnouncement(p, t)
    \/ \E t \in AnnouncementTypes : RecontraAnnouncement(p, t)

\* C17: in the announcements the first seat to act is the declarer, and
\* every accepted action (an announce command of one or more kinds, a pass,
\* a contra, a recontra) moves the turn to the next seat,
\* (current_turn + 1) mod 4, however many kinds the command carried.
C17_TurnToNextSeat ==
    [][/\ (phase # "announcements" /\ phase' = "announcements")
             => current_turn' = declarer_position'
       /\ (/\ phase = "announcements"
           /\ phase' = "announcements"
           /\ reply' = "OK"
           /\ AnnouncementCommand(current_turn))
             => current_turn' = (current_turn + 1) % NumPlayers
      ]_vars

\* the three most recent actions of h are passes
ThreePasses(h) ==
    /\ Len(h) >= 3
    /\ h[Len(h)] = PassEntry /\ h[Len(h) - 1] = PassEntry /\ h[Len(h) - 2] = PassEntry

\* no action of h before the last was the third of three passes in a row
NoEarlierThreePasses(h) == \A k \in 1..(Len(h) - 1) : ~ThreePasses(SubSeq(h, 1, k))

\* The announcements go on only while the last three actions are not all
\* passes, and the play has started at the first third pass in a row.
C18_PhaseAndPasses ==
    /\ phase = "announcements"
          => ~ThreePasses(announcement_history)
             /\ NoEarlierThreePasses(announcement_history)
    /\ phase = "playing"
          => ThreePasses(announcement_history)
             /\ NoEarlierThreePasses(announcement_history)

\* The announcements end in the step that makes the last three actions
\* passes, and in no other step, and then the play starts.
C18_EndStep ==
    [][phase = "announcements"
          => /\ phase' # "announcements"
                   => /\ phase' = "playing"
                      /\ ThreePasses(announcement_history')
                      /\ ~ThreePasses(announcement_history)
             /\ ThreePasses(announcement_history') => phase' = "playing"
      ]_vars

\* C18: the announcements end, and the play starts, exactly at the first
\* moment the three most recent actions of the phase are all passes: never
\* while one of the last three actions is an announcement, and the phase
\* never goes on once three passes in a row have occurred.
C18_ThreePassesEnd == []C18_PhaseAndPasses /\ C18_EndStep

C18_Witness ==
    /\ phase = "playing"
    /\ Len(announcement_history) >= 6
    /\ announcement_history[1] = PassEntry
    /\ announcement_history[2] = PassEntry
    /\ announcement_history[3] # PassEntry

\* the first announcement of kind t in the ledger
FirstAnnouncement(t) ==
    announcements[CHOOSE i \in 1..Len(announcements) :
                     /\ announcements[i].announcement_type = t
                     /\ \A j \in 1..(i - 1) : announcements[j].announcement_type # t]

is_declarer_team(p) == p = declarer_position \/ p = partner_position

\* C19: a contra on an announcement of the ledger is accepted exactly when
\* the seat to act is on the team opposing the announcer and the
\* announcement has not been contra'd yet; a recontra is accepted exactly
\* when the announcement is contra'd, not recontra'd, and the seat to act is
\* on the announcer's team.  No announcement of the ledger is contra'd
\* before the first contra is accepted, so a contra of the seat to act on an
\* announcement of the other team is accepted and no recontra is.
C19_ContraProtocol ==
    [][phase = "announcements"
          => \A t \in AnnouncementTypes :
                HasAnnouncement(t)
                   => /\ ContraAnnouncement(current_turn, t)
                         => (reply' = "OK"
                               <=> is_declarer_team(current_turn)
                                      # is_declarer_team(FirstAnnouncement(t).player_position))
                      /\ RecontraAnnouncement(current_turn, t) => reply' # "OK"
      ]_vars

\* the game-value multiplier of the announced double games and volats
AnnouncedMultipliers ==
    {1} \cup {get_multiplier(announcements[i]) : i \in 1..Len(announcements)}

\* C20: at the settlement the points exchanged for an announcement are its
\* table value, times 2 when it was contra'd and times 4 when it was
\* recontra'd as well, and a contra or recontra never changes the multiplier
\* of the game value.  No announcement of the ledger is contra'd when the
\* hand ends, so the settlement returns the scores, each announcement of
\* the ledger is paid at its table value, and the game value is multiplied
\* by what a double game or a volat gives.
C20_ContraSettlement ==
    (phase = "game_end" /\ announcements # <<>>)
       => /\ ~FinalScore.raised
          /\ \E m \in AnnouncedMultipliers :
                FinalScore.final_game_value = winning_bid.game_value * m

(***************************************************************************)
(* Properties of the play of the tricks.                                   *)
(***************************************************************************)
AllSuits == {"hearts", "diamonds", "spades", "clubs", "tarokk"}

\* the cards of hand h that may be played: when leading all of h; else the
\* cards of the lead suit if h has any, else the trumps if h has any, else
\* all of h
LegalSet(h, lead_suit, leading) ==
    LET same == {c \in h : Suit(c) = lead_suit}
        trumps == {c \in h : c <= NumTarokk}
    IN CASE leading -> h
         [] ~leading /\ same # {} -> same
         [] ~leading /\ same = {} /\ trumps # {} -> trumps
         [] OTHER -> h

\* get_legal_cards gives the legal set, which is not empty, for every hand
\* held and every lead suit
C21_LegalCards ==
    \A p \in Seats : \A lead_suit \in AllSuits : \A leading \in BOOLEAN :
       hand[p] # {}
          => /\ get_legal_cards(hand[p], lead_suit, leading)
                   = LegalSet(hand[p], lead_suit, leading)
             /\ get_legal_cards(hand[p], lead_suit, leading) # {}

\* a card leaves a hand during the play only if it is the seat's turn and
\* the card is in the legal set of its hand
C21_PlayedIsLegal ==
    [][phase = "playing"
          => \A p \in Seats : \A c \in hand[p] \ hand'[p] :
                /\ p = current_turn
                /\ reply' = "OK"
                /\ c \in LegalSet(hand[p],
                                  IF current_trick = <<>> THEN "none"
                                  ELSE Suit(current_trick[1][2]),
                                  current_trick = <<>>)
      ]_vars

\* C21: a playCard command is accepted only if the card is in
\* get_legal_cards of the hand of the seat to act; for every hand that is
\* not empty and every lead suit the legal set is the whole hand when
\* leading, else the hand's cards of the lead suit if there are any, else
\* the hand's trumps if there are any, else the whole hand; it is never
\* empty.
C21_LegalPlay == []C21_LegalCards /\ C21_PlayedIsLegal

C21_Witness ==
    /\ phase = "playing"
    /\ reply = "OK"
    /\ Len(current_trick) >= 3
    /\ Suit(current_trick[1][2]) # "tarokk"
    /\ \E i, j \in 2..Len(current_trick) :
          /\ Suit(current_trick[i][2]) = Suit(current_trick[1][2])
          /\ Suit(current_trick[j][2]) \notin {"tarokk", Suit(current_trick[1][2])}

\* the trumps from the weakest to the strongest, and the ranks of a suit
TrumpOrder == <<"I", "II", "III", "IV", "V", "VI", "VII", "VIII", "IX", "X", "XI",
                "XII", "XIII", "XIV", "XV", "XVI", "XVII", "XVIII", "XIX", "XX",
                "XXI", "skiz">>
SuitOrder == <<"10", "J", "C", "Q", "K">>

Strength(order, c) == CHOOSE i \in 1..Len(order) : order[i] = Rank(c)

\* the seat of the strongest play among those of plays that are trumps, or
\* among those of the lead suit when no trump was played
HighestPlay(plays, lead_suit) ==
    LET trumps == {x \in plays : Suit(x[2]) = "tarokk"}
        led == {x \in plays : Suit(x[2]) = lead_suit}
    IN IF trumps # {}
       THEN (CHOOSE x \in trumps :
                \A y \in trumps : Strength(TrumpOrder, y[2]) <= Strength(TrumpOrder, x[2]))[1]
       ELSE (CHOOSE x \in led :
                \A y \in led : Strength(SuitOrder, y[2]) <= Strength(SuitOrder, x[2]))[1]

Orders == {f \in [1..NumPlayers -> 1..NumPlayers] :
              \A i, j \in 1..NumPlayers : i # j => f[i] # f[j]}

\* C22: for four plays of distinct cards by the four seats the winner of
\* the trick is the seat that played the highest trump (skiz, XXI, XX down
\* to II, pagat) if a trump was played, else the seat that played the
\* highest card of the lead suit (King, Queen, Cavalier, Jack, Ten), and it
\* is the same in whatever order the plays are listed.
C22_TrickWinner ==
    (phase = "playing" /\ Len(current_trick) = NumPlayers /\ reply = "OK")
       => LET lead_suit == Suit(current_trick[1][2])
          IN /\ previous_trick_winner = HighestPlay(Range(current_trick), lead_suit)
             /\ \A f \in Orders :
                   determine_trick_winner([i \in 1..NumPlayers |-> current_trick[f[i]]],
                                          lead_suit)
                      = previous_trick_winner

C22_Witness ==
    /\ reply = "OK"
    /\ Len(current_trick) = NumPlayers
    /\ \A i \in 1..NumPlayers : ~is_tarokk(current_trick[i][2])
    /\ Rank(current_trick[1][2]) = "10"
    /\ Suit(current_trick[2][2]) # Suit(current_trick[1][2])
    /\ Rank(current_trick[2][2]) = "K"
    /\ Rank(current_trick[3][2]) = "Q"
    /\ Rank(current_trick[4][2]) = "K"
    /\ previous_trick_winner = current_trick[4][1]

\* During the play the trick number is within 1..9, the trick holds fewer
\* than four cards, played by the seats in cyclic order from the leader, the
\* first leader is the seat at the dealer's right, and the tricks resolved
\* before lie, four cards each, in the seats' tricks_won.
C23_TrickState ==
    phase = "playing"
       => /\ trick_number \in 1..NumTricks
          /\ Len(current_trick) < NumPlayers
          /\ \A i \in 1..Len(current_trick) :
                current_trick[i][1] = (trick_leader + i - 1) % NumPlayers
          /\ current_turn = (trick_leader + Len(current_trick)) % NumPlayers
          /\ trick_number = 1 => trick_leader = (dealer_position + 1) % NumPlayers
          /\ SumSeats([q \in Seats |-> Cardinality(tricks_won[q])])
                = NumPlayers * (trick_number - 1)

\* An accepted play either joins the trick, or is its fourth card: then the
\* four cards go to the tricks_won of the seat that won, which leads the
\* next trick, and after the ninth trick all hands are empty and the phase
\* becomes scoring.
C23_TrickStep ==
    [][phase = "playing"
          => \A c \in hand[current_turn] \ hand'[current_turn] :
                LET trick == Append(current_trick, <<current_turn, c>>)
                    w == HighestPlay(Range(trick), Suit(trick[1][2]))
                IN IF Len(trick) < NumPlayers
                   THEN /\ current_trick' = trick
                        /\ UNCHANGED <<tricks_won, trick_number, trick_leader, phase>>
                   ELSE /\ current_trick' = <<>>
                        /\ tricks_won' = [tricks_won EXCEPT ![w] = @ \cup TrickCards(trick)]
                        /\ trick_number' = trick_number + 1
                        /\ IF trick_number < NumTricks
                           THEN /\ phase' = "playing"
                                /\ trick_leader' = w
                                /\ current_turn' = w
                           ELSE /\ \A q \in Seats : hand'[q] = {}
                                /\ Len(phase_log') >= 2
                                /\ phase_log'[2] = "scoring"
                                /\ phase' # "playing"
      ]_vars

\* C23: the first trick is led by the seat at the dealer's right; each
\* trick receives one card from each of the four seats in cyclic order
\* before it is resolved; its four cards go to the winner's tricks_won; the
\* winner leads the next trick; trick_number is within 1..9 during the
\* play; after the 36th accepted play the phase is scoring.
C23_TrickFlow == []C23_TrickState /\ C23_TrickStep

C23_Witness ==
    /\ phase = "game_end"
    /\ phase_log = <<"playing", "scoring", "game_end">>
    /\ \A q \in Seats : hand[q] = {}
    /\ SumSeats([q \in Seats |-> Cardinality(tricks_won[q])]) = NumPlayers * NumTricks
    /\ Cardinality({q \in Seats : tricks_won[q] # {}}) >= 2

(***************************************************************************)
(* Properties of the card points and of the settlement.                    *)
(***************************************************************************)
\* the card points of the two teams at the end of the hand
TeamScores ==
    calculate_team_scores(tricks_won, discard_pile, declarer_position, partner_position)

\* C24: for every completed hand (nine tricks played) the card points of
\* the declarer's team and of the opponents' team add up to 94.
C24_TotalPoints ==
    phase = "game_end"
       => /\ TeamScores[1] + TeamScores[2] = 94
          /\ validate_total_points(TeamScores[1], TeamScores[2])
          /\ validate_total_points(calculate_scores[1], calculate_scores[2])

C24_Witness ==
    /\ phase = "game_end"
    /\ partner_position # declarer_position
    /\ discard_pile[partner_position] # {}
    /\ TeamScores[1] > 0
    /\ TeamScores[2] > 0

\* C25: the card points and the winner reported at game over, from
\* GameState.calculate_scores and declarer_team_wins, count the partner's
\* discards for the opponents and the declarer's discards for the
\* declarer's team: for every completed hand they are the result of
\* calculate_team_scores, and the declarer's team wins exactly when its
\* points are at least 48.
C25_GameOverPoints ==
    phase = "game_end"
       => /\ calculate_scores = TeamScores
          /\ declarer_team_wins <=> TeamScores[1] >= 48

\* the seats of the team of seat q
TeamOf(q) ==
    IF q \in {declarer_position, partner_position}
    THEN {declarer_position, partner_position}
    ELSE Seats \ {declarer_position, partner_position}

\* the card points and the tricks of the team of seat q
TeamPointsOf(q) ==
    IF q \in {declarer_position, partner_position} THEN TeamScores[1] ELSE TeamScores[2]

TeamTricksOf(q) ==
    Cardinality(UNION {tricks_won[x] : x \in TeamOf(q)}) \div NumPlayers

\* a ledger entry of kind t, said aloud, whose team has reached what t names
AnnouncedAndAchieved(t) ==
    \E i \in 1..Len(announcements) :
       /\ announcements[i].announcement_type = t
       /\ announcements[i].announced
       /\ IF t = "volat"
          THEN TeamTricksOf(announcements[i].player_position) = 9
          ELSE TeamPointsOf(announcements[i].player_position) >= 71

OnWinningSide(i) ==
    (i \in {declarer_position, partner_position}) <=> (FinalScore.winner = "declarer_team")

\* C27: the base game payment: from the baseline 50, with two seats on each
\* team and no announcement payment, every seat of the losing team has the
\* delta -2 x final game value and every seat of the winning team
\* +2 x final game value.
C27_BasePayment ==
    (/\ phase = "game_end"
     /\ partner_position # declarer_position
     /\ reply = "OK"
     /\ ~FinalScore.raised)
       => \A i \in Seats :
             FinalScore.player_scores[i] - StartScore
                = IF OnWinningSide(i) THEN 2 * FinalScore.final_game_value
                  ELSE 0 - 2 * FinalScore.final_game_value

\* the point value of a ledger entry: trull and four kings 2 announced and
\* 1 silent, pagat ultimo 10 and 5, XXI catch 42 and 21, double game and
\* volat 0
PointValue(a) ==
    LET t == a.announcement_type
    IN IF t \in {"trull", "four_kings"} THEN (IF a.announced THEN 2 ELSE 1)
       ELSE IF t = "pagat_ultimo" THEN (IF a.announced THEN 10 ELSE 5)
       ELSE IF t = "xxi_catch" THEN (IF a.announced THEN 42 ELSE 21)
       ELSE 0

\* what an achieved entry a is to bring to seat i: the point value from
\* each seat of the other team, all of it to the announcing seat
Exchange(i, a) ==
    LET others == Seats \ TeamOf(a.player_position)
    IN IF i = a.player_position THEN PointValue(a) * Cardinality(others)
       ELSE IF i \in others THEN 0 - PointValue(a)
       ELSE 0

RECURSIVE Exchanges(_, _)
Exchanges(i, anns) ==
    IF anns = <<>> THEN 0 ELSE Exchange(i, Head(anns)) + Exchanges(i, Tail(anns))

\* C28: the announcement payments: beyond the base game payment, each
\* achieved announcement takes its point value from every seat of the team
\* opposing the announcer and gives the total to the announcing side, each
\* announcement that was not achieved takes the point value once per
\* opposing seat from the announcer and gives it to each opposing seat; a
\* double game or a volat exchanges 0 points.
C28_AnnouncementPayments ==
    (phase = "game_end" /\ reply # "")
       => \A i \in Seats :
             FinalScore.player_scores[i] - StartScore
                - BasePayment(i, declarer_position, partner_position,
                              FinalScore.winner = "declarer_team",
                              FinalScore.final_game_value)
                = Exchanges(i, FinalScore.achieved_announcements)
                  - Exchanges(i, FinalScore.failed_announcements)

\* the bonuses that the settlement adds to the ledger's entries
SilentBonuses == check_silent_achievements(tricks_won, announcements)

\* the three honours and the four kings, as cards
TheHonours == {1, 2, 3}

TheKings == {23, 28, 33, 38}

HasLedgerEntry(s, k) ==
    \E j \in 1..Len(announcements) :
       /\ announcements[j].player_position = s
       /\ announcements[j].announcement_type = k

PlayedIn(k, q, c) ==
    \E i \in 1..Len(trick_history[k].cards) : trick_history[k].cards[i] = <<q, c>>

\* a trick that seat p won with the skiz and to which a seat of the other
\* team played the XXI
CaughtXXI(p) ==
    \E k \in 1..Len(trick_history) :
       /\ trick_history[k].winner = p
       /\ PlayedIn(k, p, 1)
       /\ \E q \in Seats \ TeamOf(p) : PlayedIn(k, q, 2)

\* C30: an XXI catch in the ledger is evaluated as achieved exactly when
\* the announcer won a trick in which the announcer played the skiz and a
\* seat of the opposing team played the XXI; the XXI of the announcer's own
\* team-mate in that trick is no catch.
C30_XXICatch ==
    (phase = "game_end" /\ reply # "")
       => \A j \in 1..Len(announcements) :
             announcements[j].announcement_type = "xxi_catch"
                => (announcements[j] \in Range(FinalScore.achieved_announcements)
                      <=> CaughtXXI(announcements[j].player_position))

(***************************************************************************)
(* Properties of the deck, of the redeal and of the saved game.            *)
(***************************************************************************)
\* the composition of the 42 cards and of every shuffle of them
DeckComposition ==
    /\ Cardinality({<<Suit(c), Rank(c)>> : c \in Cards}) = 42
    /\ SumPoints(Cards) = 94
    /\ Cardinality({c \in Cards : is_tarokk(c)}) = 22
    /\ Cardinality({c \in Cards : is_honour(c)}) = 3
    /\ \A i \in 1..Len(SuitNames) :
          Cardinality({c \in Cards : Suit(c) = SuitNames[i]}) = 5
    /\ Cardinality({c \in Cards : is_king(c)}) = 4
    /\ \A d \in Shuffles : Len(d) = 42 /\ Range(d) = Cards

\* deal(n) with n above the number of cards left fails and keeps the deck,
\* and only then
DealFails ==
    \A n \in DealSizes :
       /\ deal(deck, n).raised <=> n > Len(deck)
       /\ deal(deck, n).raised => deal(deck, n).cards = deck

\* a step that dealt hands leaves no card in the deck, 6 in the talon and
\* 9 in each hand, all 42 of them; a failed deal changes neither deck nor
\* talon
DealStep ==
    /\ hand' # hand
          => /\ deck' = <<>>
             /\ Len(talon') = 6
             /\ \A p \in Seats : Cardinality(hand'[p]) = 9
             /\ Range(talon') \cup UNION {hand'[p] : p \in Seats} = Cards
             /\ SumPoints(Range(talon')) + SumSeats([p \in Seats |-> SumPoints(hand'[p])]) = 94
    /\ reply' = "Not enough cards in deck" => deck' = deck /\ talon' = talon

\* C31: every deal uses a fresh deck of 42 distinct cards worth 94 points
\* (22 trumps of which 3 honours, 4 suits of 5 cards, 4 kings), and
\* start_dealing consumes it completely: afterwards the deck is empty, the
\* talon has 6 cards and each hand 9; deal(n) with n greater than the
\* number of cards left fails and leaves the deck unchanged.
C31_DeckAndDeal == [](DeckComposition /\ DealFails) /\ [][DealStep]_vars

\* after start_dealing a further deal has failed
C31_Witness ==
    /\ deck = <<>>
    /\ Len(talon) = 6
    /\ \A p \in Seats : Cardinality(hand[p]) = 9
    /\ reply = "Not enough cards in deck"

Reloaded == reconstruct_game_state(GameState_to_dict(GameState, NoPos))

\* C33: the persistence round trip: for every state of a hand,
\* reconstructing from the saved dictionary gives a state equal to it in
\* phase, turn, hands, tricks won, discard piles, talon, current trick with
\* its seats, bid log and winning bid, declarer, partner position, called
\* card rank, partner_revealed, trick number and leader, announcements and
\* announcement history, and players_who_discarded.
C33_RoundTrip ==
    phase # "waiting"
       => /\ Reloaded.error = ""
          /\ Reloaded.phase = phase
          /\ Reloaded.current_turn = current_turn
          /\ Reloaded.hand = hand
          /\ Reloaded.tricks_won = tricks_won
          /\ Reloaded.discard_pile = discard_pile
          /\ Reloaded.talon = talon
          /\ Reloaded.current_trick = current_trick
          /\ Reloaded.bid_history = bid_history
          /\ Reloaded.winning_bid = winning_bid
          /\ Reloaded.declarer_position = declarer_position
          /\ Reloaded.partner_position = partner_position
          /\ Reloaded.called_card_rank = called_card_rank
          /\ Reloaded.partner_revealed = partner_revealed
          /\ Reloaded.trick_number = trick_number
          /\ Reloaded.trick_leader = trick_leader
          /\ Reloaded.announcements = announcements
          /\ Reloaded.announcement_history = announcement_history
          /\ Reloaded.players_who_discarded = players_who_discarded

(***************************************************************************)
(* Properties of the commands as units and of the handlers' awaits.        *)
(***************************************************************************)
\* C34: an announce command that carries several kinds is all-or-nothing:
\* when any kind of the list is rejected (an unknown kind, or a pagat
\* ultimo or XXI catch without the card it needs), no announcement of the
\* command enters the ledger or the history and current_turn stays.
C34_AnnounceAllOrNothing ==
    [][\A p \in Seats, types \in AnnounceInputs :
          (MakeAnnouncement(p, types, TRUE) /\ reply' \notin {"OK", ""})
             => UNCHANGED <<announcements, announcement_history, current_turn>>
      ]_vars

\* C35: once the bid log satisfies the termination condition of the
\* auction, no further bid is accepted for that auction and the log is
\* never extended, also while the handler that completed the auction waits
\* at the bid broadcast or at the delay before the redeal: the log stays as
\* it is until the redeal empties it.
C35_NoBidAfterCompletion ==
    [][(SoloBid(bid_history) \/ ThrownIn(bid_history) \/ ThreePassesAfterBid(bid_history))
          => (bid_history' = bid_history \/ bid_history' = <<>>)
      ]_vars

\* players_who_discarded names no seat twice, and in phase partner_call it
\* names all four seats and every hand has 9 cards
DiscardedOnce ==
    /\ \A i, j \in 1..Len(players_who_discarded) :
          players_who_discarded[i] = players_who_discarded[j] => i = j
    /\ phase = "partner_call"
          => /\ Range(players_who_discarded) = Seats
             /\ \A q \in Seats : Cardinality(hand[q]) = 9

\* the turn leaves a seat in phase discarding only for the next seat and
\* only after that seat has discarded
NoSeatSkipped ==
    (phase = "discarding" /\ phase' = "discarding" /\ current_turn' # current_turn)
       => /\ current_turn' = (current_turn + 1) % 4
          /\ current_turn \in Range(players_who_discarded)

\* C36: also when the discard handlers of messages that arrive together
\* interleave at their awaits, the discarding phase ends only after each of
\* the 4 seats has discarded exactly once: players_who_discarded never
\* holds a seat twice, no seat's turn is skipped, and every hand has 9
\* cards when the phase becomes partner_call.
C36_DiscardOncePerSeat == []DiscardedOnce /\ [][NoSeatSkipped]_vars

\* C40: a game is started at most once and only from phase waiting with all
\* four players ready, also when the ready handlers of several players
\* interleave at their awaits: the cards are dealt by one step only, taken
\* in phase waiting with every seat ready, and that step runs start_dealing
\* and start_bidding.
C40_StartedOnce ==
    [][hand' # hand
          => /\ phase = "waiting"
             /\ \A q \in Seats : is_ready[q]
             /\ \A q \in Seats : hand[q] = {} /\ Cardinality(hand'[q]) = 9
             /\ phase' = "bidding"
             /\ phase_log' = <<"waiting", "dealing", "bidding">>
      ]_vars

\* the game has started and a ready handler that waited at its broadcast
\* has resumed afterwards
C40_Witness ==
    /\ phase = "bidding"
    /\ \A q \in Seats : Cardinality(hand[q]) = 9
    /\ suspended = {}
    /\ phase_log = <<"bidding">>

(***************************************************************************)
(* Properties of the teams and of the end of the auction.                  *)
(***************************************************************************)
\* the seats that are neither the declarer nor the partner: the seats the
\* settlement treats as opponents (i not in [declarer_position,
\* partner_position])
OpponentSeats == Seats \ {declarer_position, partner_position}

\* C38: after a successful partner call the declarer's team consists of two
\* distinct seats: partner_position is never equal to declarer_position,
\* so exactly two seats are opponents at settlement.
C38_TwoDistinctSeats ==
    []((phase \in {"announcements", "playing", "scoring", "game_end"} /\ partner_position # NoPos)
          => /\ partner_position # declarer_position
             /\ Cardinality(OpponentSeats) = 2)

\* C39: the two auction-termination checks agree: for every bid log,
\* GameState.is_bidding_complete (used by the server) returns the same
\* result as BiddingManager.is_auction_complete.
C39_ChecksAgree ==
    /\ is_bidding_complete(bid_history) = is_auction_complete(bid_history)
    /\ reply # "" => ((reply = "complete") <=> is_bidding_complete(bid_history))

\* both checks have answered "complete" for a log whose last three entries
\* are passes after an earlier bid: the case in which only
\* is_auction_complete looks at the earlier entries
C39_Witness ==
    /\ reply = "complete"
    /\ Len(bid_history) >= 4
    /\ ~SoloBid(bid_history)
    /\ ~AllPass(bid_history)
    /\ AllPass(LastThree(bid_history))
    /\ is_bidding_complete(bid_history)

\* the checks have answered "not complete" for three passes, a log that is
\* too short for either check
C39_WitnessShort ==
    /\ reply = "not complete"
    /\ Len(bid_history) = 3
    /\ AllPass(bid_history)

\* the auction is open and the last four accepted entries of its log are
\* the four before them over again (same seats, same bids, same values):
\* a whole round has been accepted and has brought the auction no nearer to
\* its end
RoundRepeated ==
    /\ phase = "bidding"
    /\ Len(bid_history) >= 2 * NumPlayers
    /\ ~is_bidding_complete(bid_history)
    /\ \A i \in (Len(bid_history) - NumPlayers + 1)..Len(bid_history) :
           bid_history[i] = bid_history[i - NumPlayers]

\* the round that was repeated is accepted once more from the state it has
\* led to, and leaves the auction open again
RECURSIVE RoundAccepted(_, _)
RoundAccepted(h, k) ==
    IF k = 0 THEN ~is_bidding_complete(h)
    ELSE LET b == h[Len(h) - NumPlayers + 1]
         IN /\ ~is_bidding_complete(h)
            /\ can_player_bid(b.player_position, b.bid_type, h) = "OK"
            /\ stored_bid(b.player_position, b.bid_type, h) = b
            /\ RoundAccepted(Append(h, b), k - 1)

\* C37: every auction terminates: within one auction there is no unbounded
\* sequence of accepted placeBid commands; when the seat to act keeps
\* submitting legal bids, the termination condition is reached after a
\* bounded number of log entries.  Hence no open auction accepts the same
\* round of four bids twice in a row and stands ready to accept it again.
C37_AuctionTerminates ==
    [](~(RoundRepeated /\ RoundAccepted(bid_history, NumPlayers)))

================================================================
